---- MODULE Spec2Model ----
(***************************************************************************)
(* Token-gated workflow orchestration of the OfferI MCP server             *)
(* (src/backend/mcp_server/server.py, version 1.08).                       *)
(*                                                                         *)
(* The state is the in-memory token store, with the usage table and the    *)
(* payments and jobs of the HTTP API.  Every workflow tool is one          *)
(* action: it reads its arguments, runs the checks of the handler in       *)
(* source order, and either raises (the store is left alone) or mints one  *)
(* token.  The handler itself is an operator `<tool>_outcome` of the store *)
(* and the arguments; the action applies it to arguments drawn from the    *)
(* sets it is given.  `result` is the response of the last call; `lineage` *)
(* is a history variable that records, for every token, the arguments of   *)
(* the call that minted it.                                                *)
(*                                                                         *)
(* Spec drives the seven steps with well-formed and malformed payloads and *)
(* one token per type; SpecBatches drives them with well-formed payloads   *)
(* and several batches of steps 3 and 5; SpecPair drives them for two      *)
(* consultations at a time; SpecRanking calls score_and_rank_programs on   *)
(* every validation of a bounded size and submits the report of the       *)
(* ranking; SpecTargets drives two target lists through one store;         *)
(* SpecQuota and SpecOutage drive the quota of the first step with the     *)
(* usage database up and down; SpecApi drives the payment and job          *)
(* endpoints of the HTTP API (src/backend/api).                            *)
(***************************************************************************)
EXTENDS Integers, Sequences, FiniteSets, TLC

VARIABLES
    active_tokens,   \* _active_tokens: token id -> [type, data]; id = position
    lineage,         \* history: token id -> arguments of the minting call
    result,          \* the last call: operation and outcome
    mcp_usage,       \* mcp_usage.usage_count of the user of "sk_user", this month
    payments,        \* payments table: payment id -> [user_id, status, job_id]
    jobs,            \* Redis hashes job:<id>: job id -> fields of the job
    job_queue,       \* Redis list job_queue, newest first
    ledger           \* history: payment id -> [refunds, runs]

\* The state outside the MCP process: the usage table, and the state of the
\* HTTP API (src/backend/api).
outside == <<mcp_usage, payments, jobs, job_queue, ledger>>

vars ==
    <<active_tokens, lineage, result, mcp_usage, payments, jobs, job_queue,
      ledger>>

-----------------------------------------------------------------------------
(* Bounds of the model.                                                    *)

\* Tokens of one type the store may hold; in SpecBatches, of the types of the
\* steps that are not iterated (consultation, exploration, shortlist, ranking).
MaxLinear == 1
\* Tokens of an iterated step (programs, validation) the store may hold in
\* SpecBatches, per type.
MaxBatches == 2
\* Consultations the store may hold in SpecPair, and tokens of every later
\* step.
MaxConsultations == 2
\* Most universities of a validation that SpecRanking ranks.
MaxValidated == 8
\* Longest university list a caller passes (universities,
\* all_selected_universities).
MaxListLen == 2
\* Consultations the store may hold in SpecQuota, and the usage_count up to
\* which _internal_track_usage is called.
MaxStarted == 6
MaxUsage == 6
\* Jobs the Redis store may hold in SpecApi.
MaxJobs == 2

-----------------------------------------------------------------------------
(* The programs database (external collaborator, read-only).               *)

\* Rows of the programs table: MIT and Toronto have two programs, Yale,
\* Oxford and Acme one.
programs_table ==
    { [program_id |-> 1, program_name |-> "MISM", university_name |-> "MIT",
       country_standardized |-> "USA"],
      [program_id |-> 2, program_name |-> "MSCS", university_name |-> "MIT",
       country_standardized |-> "USA"],
      [program_id |-> 3, program_name |-> "MSDS", university_name |-> "Yale",
       country_standardized |-> "USA"],
      [program_id |-> 4, program_name |-> "MPhil", university_name |-> "Oxford",
       country_standardized |-> "UK"],
      [program_id |-> 5, program_name |-> "MEng", university_name |-> "Toronto",
       country_standardized |-> "Canada"],
      [program_id |-> 6, program_name |-> "MBA", university_name |-> "Acme",
       country_standardized |-> "Canada"],
      [program_id |-> 7, program_name |-> "MScAC", university_name |-> "Toronto",
       country_standardized |-> "Canada"] }

\* The names a caller types.
UniversityNames == {"MIT", "Yale", "Oxford"}
USUniversities == {"MIT", "Yale"}
Countries == {"USA", "UK", "Atlantis"}

\* Elements of a list, as a set: Python's set(list).
ToSet(s) == { s[i] : i \in 1..Len(s) }

\* All lists over S of length lo..hi.
Lists(S, lo, hi) == UNION { [1..n -> S] : n \in lo..hi }

\* The lists that enumerate the set S, each element once.
Enumerations(S) ==
    { s \in [1..Cardinality(S) -> S] : ToSet(s) = S }

\* SELECT university_name ... WHERE country_standardized = ?
\* GROUP BY university_name ORDER BY COUNT(*) DESC
_list_universities(country) ==
    LET unis == { r.university_name : r \in
                    { q \in programs_table : q.country_standardized = country } }
        count(u) == Cardinality({ r \in programs_table :
                                    r.university_name = u
                                    /\ r.country_standardized = country })
    IN  CHOOSE s \in Enumerations(unis) :
            \A i, j \in 1..Len(s) : i < j => count(s[i]) >= count(s[j])

\* WHERE LOWER(university_name) LIKE LOWER('%name%') ORDER BY program_name:
\* no name of the model is a substring of another one, so the pattern matches
\* the equal name only.  The rows are kept as the set of their program ids.
_search_programs(university_name) ==
    { r.program_id : r \in { q \in programs_table :
                               q.university_name = university_name } }

\* SELECT ... WHERE program_id IN (ids): one row per id the table holds.
_get_program_details_batch(program_ids) ==
    { r \in programs_table : r.program_id \in program_ids }

-----------------------------------------------------------------------------
(* Token management.                                                       *)

\* None or "": a token argument that is falsy (`not token`).
NoToken == 0

\* A string that is not a key of the store (tokens are never removed, so the
\* first unused id is such a string at the time of the call).
UnknownToken == Len(active_tokens) + 1

TokenArgs == 0..(Len(active_tokens) + 1)

\* A generate_token that keeps one entry per type: the entry of the latest
\* token of the type is written again.
generate_token_in_place(store, token_type, data) ==
    LET same == { i \in DOMAIN store : store[i].type = token_type }
        last == CHOOSE i \in same : \A j \in same : j <= i
    IN  IF same = {}
        THEN Append(store, [type |-> token_type, data |-> data])
        ELSE [store EXCEPT ![last] = [type |-> token_type, data |-> data]]

\* A generate_token whose key is derived from the type and the payload: the
\* same payload gets the same token.
generate_token_by_content(store, token_type, data) ==
    IF \E i \in DOMAIN store : store[i] = [type |-> token_type, data |-> data]
    THEN store
    ELSE Append(store, [type |-> token_type, data |-> data])

\* generate_token: a fresh key (the type and 16 random bytes) is added to the
\* store; no entry is changed.
generate_token(store, token_type, data) ==
    Append(store, [type |-> token_type, data |-> data])

\* A validate_token that does not compare the type.
validate_token_any_type(store, token, expected_type) ==
    IF token = NoToken \/ token \notin DOMAIN store
    THEN "Invalid or expired token"
    ELSE ""

\* A validate_token that reports every rejection as an invalid token.
validate_token_one_message(store, token, expected_type) ==
    IF token = NoToken \/ token \notin DOMAIN store
       \/ store[token].type # expected_type
    THEN "Invalid or expired token"
    ELSE ""

\* validate_token: the error it raises, or "" when the token is accepted.
validate_token(store, token, expected_type) ==
    IF token = NoToken \/ token \notin DOMAIN store
    THEN "Invalid or expired token"
    ELSE IF store[token].type # expected_type
         THEN "Wrong token type"
         ELSE ""

\* A validate_token that returns the payload of the latest token of the
\* type, as a server that keeps one current session would.
token_data_latest(store, token) ==
    LET same == { i \in DOMAIN store : store[i].type = store[token].type }
    IN  store[CHOOSE i \in same : \A j \in same : j <= i].data

\* The payload validate_token returns for an accepted token.
token_data(store, token) == store[token].data

TokensOfType(store, t) == { i \in DOMAIN store : store[i].type = t }

\* The model's bound on the store: a step is called only while the store has
\* room for one more token of the step's type.
Room(token_type, max) ==
    Cardinality(TokensOfType(active_tokens, token_type)) < max

-----------------------------------------------------------------------------
(* Outcomes of a handler.                                                  *)

NoData == [none |-> TRUE]

\* dict.get(field, default) on a token's payload.
get(data, field, default) ==
    IF field \in DOMAIN data THEN data[field] ELSE default

\* data[field], for each of `fields`, raises KeyError when the field is absent.
KeyError(data, fields) == fields \ DOMAIN data # {}

\* raise ValueError(message): nothing is minted.
Raise(message) ==
    [status |-> "ValueError", error |-> message, errors |-> <<>>,
     data |-> NoData, is_complete |-> FALSE, remaining_universities |-> {}]

\* raise ValueError listing the collected errors.
RaiseAll(message, errors) ==
    [status |-> "ValueError", error |-> message, errors |-> errors,
     data |-> NoData, is_complete |-> FALSE, remaining_universities |-> {}]

\* An exception that is not a ValueError escapes the handler.
Crash(exception) ==
    [status |-> exception, error |-> exception, errors |-> <<>>,
     data |-> NoData, is_complete |-> FALSE, remaining_universities |-> {}]

\* The handler returns; `data` is the payload of the token it mints.
Return(data, is_complete, remaining) ==
    [status |-> "ok", error |-> "", errors |-> <<>>,
     data |-> data, is_complete |-> is_complete,
     remaining_universities |-> remaining]

\* History of a call: the batch and the all_selected_universities of
\* get_university_programs and the keys of web_validations (kept in `lineage`
\* with the token the call mints), and the number of contract rules the
\* payload violates, each rule counted by itself (kept in `result`).
NoArgs == [universities |-> <<>>, selected |-> <<>>, keys |-> {}, violations |-> 0]

\* validate_token with the token taken out of the store once it is read.
validated_store_single_use(store, token) ==
    IF token \in DOMAIN store
    THEN [store EXCEPT ![token] = [type |-> "used", data |-> NoData]]
    ELSE store

\* The store after validate_token(token, ...): it reads the entry and leaves
\* the store alone.
validated_store(store, token) == store

\* sum of f[x] over the domain of f
RECURSIVE SumF(_)
SumF(f) ==
    IF DOMAIN f = {} THEN 0
    ELSE LET x == CHOOSE x \in DOMAIN f : TRUE
         IN  f[x] + SumF([y \in DOMAIN f \ {x} |-> f[y]])

\* The step of the store and of the response that a call of `op` with the
\* token arguments `token`, `previous` and the outcome `out` makes: a handler
\* that raises writes nothing, a handler that returns has minted one token.
\* result.tokens are the token arguments when the store holds them with the
\* types the step expects (<<0, 0>> otherwise); result.retry tells that the
\* call before was a rejected call of the same step on the same tokens.
Respond(op, token_type, expected, token, previous, args, out) ==
    LET minted == out.status = "ok" /\ token_type # ""
        store == validated_store(validated_store(active_tokens, token), previous)
        held ==
            /\ expected[1] = "" \/ validate_token(active_tokens, token, expected[1]) = ""
            /\ previous = NoToken
               \/ validate_token(active_tokens, previous, expected[2]) = ""
        tokens == IF held THEN <<token, previous>> ELSE <<NoToken, NoToken>>
    IN  /\ active_tokens' =
              IF minted THEN generate_token(store, token_type, out.data)
                        ELSE store
        /\ lineage' =
              IF minted
              THEN Append(lineage, [from |-> token, previous |-> previous,
                                    universities |-> args.universities,
                                    selected |-> args.selected,
                                    keys |-> args.keys])
              ELSE lineage
        /\ result' =
              [op |-> op, status |-> out.status, error |-> out.error,
               errors |-> out.errors, tokens |-> tokens,
               minted |-> IF minted THEN Len(active_tokens) + 1 ELSE NoToken,
               is_complete |-> out.is_complete,
               remaining_universities |-> out.remaining_universities,
               violations |-> IF held THEN args.violations ELSE 0,
               retry |-> /\ result.op = op
                         /\ result.status = "ValueError"
                         /\ result.tokens = tokens]
        /\ UNCHANGED outside

-----------------------------------------------------------------------------
(* Step 1: start_consultation.                                             *)

\* 5 free consultations per month.
FREE_CONSULTATION_LIMIT == 5

\* The api_keys table: key -> [is_super_key, is_active]; other keys have no row.
api_keys ==
    [k \in {"sk_user", "sk_super", "sk_revoked"} |->
        [is_super_key |-> k = "sk_super", is_active |-> k # "sk_revoked"]]

\* What a call finds outside the process: the key of the Authorization
\* header, whether the usage database answers, and the usage_count of the
\* key's user for the current month.
ApiKeys == {"", "key", "sk_unknown", "sk_revoked", "sk_super", "sk_user"}
Requests ==
    [api_key : ApiKeys, db_up : BOOLEAN,
     current_usage : {0, FREE_CONSULTATION_LIMIT}]

\* api_key.startswith("sk_")
startswith_sk(api_key) ==
    api_key \in {"sk_unknown", "sk_revoked", "sk_super", "sk_user"}

\* The quota validation block: the error it raises, or "" when the call goes on.
quota_validation(request) ==
    IF request.api_key = "" \/ ~startswith_sk(request.api_key)
    THEN "Invalid or missing API key"
    ELSE IF ~request.db_up
    THEN ""      \* except Exception: pass (fail-open)
    ELSE IF request.api_key \notin DOMAIN api_keys
    THEN "API key not found or invalid"
    ELSE IF ~api_keys[request.api_key].is_active
    THEN "API key has been revoked"
    ELSE IF api_keys[request.api_key].is_super_key
    THEN ""
    ELSE IF request.current_usage >= FREE_CONSULTATION_LIMIT
    THEN "MONTHLY QUOTA EXCEEDED"
    ELSE ""

required_fields ==
    <<"target_tier_range", "reach_tier", "match_tier", "safety_tier",
      "career_clarity", "reasoning">>

\* str.lower() on the strings of the model.
lower(s) ==
    CASE s = "High" -> "high"
      [] s = "HIGH" -> "high"
      [] s = "Medium" -> "medium"
      [] s = "Low" -> "low"
      [] s = "MIT" -> "mit"
      [] s = "Yale" -> "yale"
      [] s = "Oxford" -> "oxford"
      [] s = "Toronto" -> "toronto"
      [] s = "Acme" -> "acme"
      [] OTHER -> s

\* A tier_assessment argument: None, a dict with the keys `fields`, or a
\* value of another type.  career_clarity is a string or a value of another
\* type (an int, None).
TierAssessment(kind, fields, cc_type, cc_value) ==
    [kind |-> kind, fields |-> fields,
     career_clarity |-> [type |-> cc_type, value |-> cc_value]]

CareerClarityStrings == {"high", "medium", "low", "High", "high "}

\* A tier_assessment with every required field.
FullAssessment(career_clarity) ==
    TierAssessment("dict", ToSet(required_fields), "str", career_clarity)

TierAssessments ==
    { TierAssessment("none", {}, "str", ""),
      TierAssessment("other", {}, "str", ""),
      TierAssessment("dict", {}, "str", ""),
      TierAssessment("dict", ToSet(required_fields) \ {"career_clarity", "reasoning"},
                     "str", ""),
      TierAssessment("dict", ToSet(required_fields), "int", "") }
    \cup { FullAssessment(c) : c \in CareerClarityStrings }

\* One entry of web_searches.
WebSearch(is_dict, fields, num_type, num) ==
    [is_dict |-> is_dict, fields |-> fields,
     num_results |-> [type |-> num_type, value |-> num]]

GoodSearch == WebSearch(TRUE, {"query", "num_results", "key_findings"}, "int", 25)

\* A web_searches argument: None, a list, or a value of another type.
WebSearches ==
    { [kind |-> "none", items |-> <<>>],
      [kind |-> "other", items |-> <<>>],
      [kind |-> "list", items |-> <<>>],
      [kind |-> "list", items |-> <<GoodSearch>>],
      [kind |-> "list", items |-> <<GoodSearch, GoodSearch, GoodSearch, GoodSearch>>],
      [kind |-> "list", items |-> <<WebSearch(TRUE, {"query", "num_results"}, "int", 26)>>],
      [kind |-> "list", items |-> <<WebSearch(TRUE, {"query", "num_results"}, "str", 0)>>],
      [kind |-> "list", items |-> <<WebSearch(TRUE, {"num_results"}, "int", 0),
                                    WebSearch(FALSE, {}, "int", 0)>>] }

\* A range check that lets every num_results through.
num_results_allowed_any(num_results) == TRUE

\* isinstance(num_results, int) and 1 <= num_results <= 25; a bool is an int
\* in Python (True is 1, False is 0).
num_results_allowed(num_results) ==
    /\ num_results.type \in {"int", "bool"}
    /\ num_results.value >= 1
    /\ num_results.value <= 25

\* The first search the loop over web_searches rejects, 0 when none.
first_bad_search(items) ==
    LET bad(i) ==
            \/ ~items[i].is_dict
            \/ "query" \notin items[i].fields
            \/ "num_results" \notin items[i].fields
            \/ ~num_results_allowed(items[i].num_results)
        B == { i \in 1..Len(items) : bad(i) }
    IN  IF B = {} THEN 0 ELSE CHOOSE i \in B : \A j \in B : i <= j

start_consultation_outcome(request, background, tier_assessment, web_searches) ==
    LET quota == quota_validation(request)
        missing_fields ==
            SelectSeq(required_fields, LAMBDA f : f \notin tier_assessment.fields)
        truthy_searches ==
            web_searches.kind = "other"
            \/ (web_searches.kind = "list" /\ web_searches.items # <<>>)
        search_count == IF truthy_searches THEN Len(web_searches.items) ELSE 0
    IN  IF quota # ""
        THEN Raise(quota)
        ELSE IF tier_assessment.kind # "dict" \/ tier_assessment.fields = {}
        THEN Raise("tier_assessment is required and must be a dict")
        ELSE IF missing_fields # <<>>
        THEN RaiseAll("tier_assessment missing required fields", missing_fields)
        ELSE IF tier_assessment.career_clarity.type # "str"
        THEN Crash("AttributeError")     \* .lower() of a value that is no string
        ELSE IF lower(tier_assessment.career_clarity.value)
                    \notin {"high", "medium", "low"}
        THEN Raise("career_clarity must be 'high', 'medium', or 'low'")
        ELSE IF truthy_searches /\ web_searches.kind # "list"
        THEN Raise("web_searches must be a list")
        ELSE IF truthy_searches /\ Len(web_searches.items) > 3
        THEN Raise("Maximum 3 web searches allowed")
        ELSE IF truthy_searches /\ first_bad_search(web_searches.items) # 0
        THEN LET s == web_searches.items[first_bad_search(web_searches.items)]
             IN  IF ~s.is_dict \/ "query" \notin s.fields
                                \/ "num_results" \notin s.fields
                 THEN Raise("Search must be a dict with 'query' and 'num_results' fields")
                 ELSE Raise("num_results must be 1-25")
        ELSE Return([background |-> background,
                     tier_assessment |-> tier_assessment,
                     web_searches_completed |-> search_count,
                     web_searches_data |-> web_searches.items],
                    FALSE, {})

\* The arguments start_consultation is called with.
ConsultationInputs(requests, tier_assessments, searches) ==
    [request : requests, tier_assessment : tier_assessments,
     web_searches : searches]

\* The contract rules of start_consultation that a payload violates: every
\* required field that is missing, a career_clarity that is none of the three
\* values, a web_searches that is no list or too long, every bad search.
consultation_violations(tier_assessment, web_searches) ==
    LET items == web_searches.items
        bad(i) ==
            \/ ~items[i].is_dict
            \/ "query" \notin items[i].fields
            \/ "num_results" \notin items[i].fields
            \/ items[i].num_results.type # "int"
            \/ items[i].num_results.value < 1
            \/ items[i].num_results.value > 25
    IN  (IF tier_assessment.kind # "dict" \/ tier_assessment.fields = {}
         THEN 1
         ELSE Cardinality(ToSet(required_fields) \ tier_assessment.fields)
              + (IF /\ "career_clarity" \in tier_assessment.fields
                    /\ \/ tier_assessment.career_clarity.type # "str"
                       \/ lower(tier_assessment.career_clarity.value)
                              \notin {"high", "medium", "low"}
                 THEN 1 ELSE 0))
        + (IF web_searches.kind = "none" \/ (web_searches.kind = "list" /\ items = <<>>)
           THEN 0
           ELSE IF web_searches.kind # "list" THEN 1
           ELSE (IF Len(items) > 3 THEN 1 ELSE 0)
                + Cardinality({ i \in 1..Len(items) : bad(i) }))

start_consultation(inputs, max) ==
    /\ Room("consultation", max)
    /\ \E call \in inputs :
          Respond("start_consultation", "consultation", <<"", "">>,
                  NoToken, NoToken,
                  [NoArgs EXCEPT !.violations =
                      IF quota_validation(call.request) = ""
                      THEN consultation_violations(call.tier_assessment,
                                                   call.web_searches)
                      ELSE 0],
                  start_consultation_outcome(call.request, "background",
                      call.tier_assessment, call.web_searches))

-----------------------------------------------------------------------------
(* Step 2: explore_universities.                                           *)

explore_universities_outcome(store, country, consultation_token) ==
    LET invalid == validate_token(store, consultation_token, "consultation")
    IN  IF invalid # ""
        THEN Raise(invalid)
        ELSE LET consultation_data == token_data(store, consultation_token)
                 tier_assessment ==
                     get(consultation_data, "tier_assessment",
                         TierAssessment("dict", {}, "str", ""))
                 career_clarity ==
                     IF "career_clarity" \in tier_assessment.fields
                     THEN tier_assessment.career_clarity.value
                     ELSE "medium"
                 universities == _list_universities(country)
             IN  IF universities = <<>>
                 THEN Raise("Country not found")
                 ELSE Return([country |-> country,
                              universities |-> universities,
                              total_universities |-> Len(universities),
                              career_clarity |-> career_clarity],
                             FALSE, {})

explore_universities(countries, max) ==
    /\ Room("exploration", max)
    /\ \E country \in countries, consultation_token \in TokenArgs :
          Respond("explore_universities", "exploration", <<"consultation", "">>,
                  consultation_token, NoToken, NoArgs,
                  explore_universities_outcome(active_tokens, country,
                                               consultation_token))

-----------------------------------------------------------------------------
(* Step 3: get_university_programs.                                        *)

\* The tool handles at most 5 universities per call.
BatchSizeLimit == 5

\* A list argument: None, a list, or a value of another type.
ListArg(kind, items) == [kind |-> kind, items |-> items]

\* The list arguments over the names S: None, a value that is no list, and
\* every list of at most MaxListLen names.
ListArgs(S) ==
    { ListArg("none", <<>>), ListArg("other", <<>>) }
    \cup { ListArg("list", l) : l \in Lists(S, 0, MaxListLen) }

\* The list arguments without a repeated name.
PlainListArgs(S) ==
    { a \in ListArgs(S) : Cardinality(ToSet(a.items)) = Len(a.items) }

\* Python's truth value of the argument.
truthy(arg) == arg.kind = "other" \/ (arg.kind = "list" /\ arg.items # <<>>)

\* sum(len(progs) for progs in d.values()), the values kept as sets.
RECURSIVE sum_len(_)
sum_len(d) ==
    IF DOMAIN d = {} THEN 0
    ELSE LET k == CHOOSE k \in DOMAIN d : TRUE
         IN  Cardinality(d[k]) + sum_len([j \in DOMAIN d \ {k} |-> d[j]])

EmptyDict == [k \in {} |-> {}]

\* {**a, **b}: the entries of b, and those of a under the other keys.
merge(a, b) ==
    [k \in DOMAIN a \cup DOMAIN b |-> IF k \in DOMAIN b THEN b[k] ELSE a[k]]

\* A batch check that lets every name through.
batch_invalid_unis_unchecked(universities, total_selected_unis) == <<>>

\* [uni for uni in universities if uni not in total_selected_unis]
batch_invalid_unis(universities, total_selected_unis) ==
    SelectSeq(universities, LAMBDA uni : uni \notin ToSet(total_selected_unis))

\* A duplicate check that finds nothing.
batch_duplicates_unchecked(universities, cumulative_unis_processed) == {}

\* set(universities) & set(cumulative_unis_processed)
batch_duplicates(universities, cumulative_unis_processed) ==
    ToSet(universities) \cap ToSet(cumulative_unis_processed)

\* An accumulation that keeps the last batch only.
batch_accumulate_last_only(cumulative_unis_processed, universities) == universities

\* cumulative_unis_processed + universities
batch_accumulate(cumulative_unis_processed, universities) ==
    cumulative_unis_processed \o universities

\* A target list that a later call may replace with its own
\* all_selected_universities.
inherited_target_or_argument(previous_data, all_selected_universities) ==
    IF all_selected_universities.kind = "list" /\ all_selected_universities.items # <<>>
    THEN all_selected_universities.items
    ELSE previous_data.total_selected_universities

\* total_selected_unis = previous_data.get("total_selected_universities") of a
\* chained call: the argument all_selected_universities is not read.
inherited_target(previous_data, all_selected_universities) ==
    previous_data.total_selected_universities

get_university_programs_outcome(store, universities, exploration_token, all_selected_universities, previous_programs_token) ==
    LET invalid == validate_token(store, exploration_token, "exploration")
        chained == previous_programs_token # NoToken
        invalid_previous ==
            IF chained
            THEN validate_token(store, previous_programs_token, "programs")
            ELSE ""
    IN  IF invalid # ""
        THEN Raise(invalid)
        ELSE IF ~truthy(universities) \/ universities.kind # "list"
        THEN Raise("You must provide a list of university names")
        ELSE IF invalid_previous # ""
        THEN Raise(invalid_previous)
        ELSE IF chained
                /\ get(token_data(store, previous_programs_token),
                       "total_selected_universities", <<>>) = <<>>
        THEN Raise("Previous programs_token is missing total_selected_universities")
        ELSE IF ~chained /\ ~truthy(all_selected_universities)
        THEN Raise("FIRST BATCH REQUIREMENT")
        ELSE IF ~chained /\ all_selected_universities.kind # "list"
        THEN Raise("all_selected_universities must be a list")
        ELSE
        LET exploration_data == token_data(store, exploration_token)
            career_clarity == get(exploration_data, "career_clarity", "medium")
            previous_data == token_data(store, previous_programs_token)
            total_selected_unis ==
                IF chained
                THEN inherited_target(previous_data, all_selected_universities)
                ELSE all_selected_universities.items
            cumulative_programs ==
                IF chained THEN get(previous_data, "cumulative_all_programs", EmptyDict)
                           ELSE EmptyDict
            cumulative_unis_processed ==
                IF chained
                THEN get(previous_data, "cumulative_universities_processed", <<>>)
                ELSE <<>>
            batch == universities.items
            invalid_unis == batch_invalid_unis(batch, total_selected_unis)
            duplicates == batch_duplicates(batch, cumulative_unis_processed)
            all_programs ==
                [uni \in { u \in ToSet(batch) : _search_programs(u) # {} } |->
                    _search_programs(uni)]
            cumulative_all_programs == merge(cumulative_programs, all_programs)
            cumulative_universities_processed ==
                batch_accumulate(cumulative_unis_processed, batch)
            remaining_unis ==
                ToSet(total_selected_unis) \ ToSet(cumulative_universities_processed)
            is_complete == Cardinality(remaining_unis) = 0
        IN  IF invalid_unis # <<>>
            THEN Raise("Invalid universities in current batch")
            ELSE IF duplicates # {}
            THEN Raise("Universities already processed in previous batch")
            ELSE IF Len(batch) > BatchSizeLimit
            THEN Raise("Batch Size Limit")
            ELSE Return([universities |-> batch,
                         all_programs |-> all_programs,
                         total_programs |-> sum_len(all_programs),
                         career_clarity |-> career_clarity,
                         total_selected_universities |-> total_selected_unis,
                         cumulative_universities_processed |->
                             cumulative_universities_processed,
                         cumulative_all_programs |-> cumulative_all_programs,
                         is_complete |-> is_complete],
                        is_complete, remaining_unis)

\* The first statement of the handler validates exploration_token; when it
\* raises, no other argument has been read.
get_university_programs(batches, selections, max) ==
    /\ Room("programs", max)
    /\ \E exploration_token \in TokenArgs :
          IF validate_token(active_tokens, exploration_token, "exploration") # ""
          THEN Respond("get_university_programs", "programs",
                       <<"exploration", "programs">>, exploration_token, NoToken,
                       NoArgs,
                       get_university_programs_outcome(active_tokens,
                           ListArg("none", <<>>), exploration_token,
                           ListArg("none", <<>>), NoToken))
          ELSE \E universities \in batches, all_selected_universities \in selections,
                  previous_programs_token \in TokenArgs :
                  Respond("get_university_programs", "programs",
                          <<"exploration", "programs">>, exploration_token,
                          previous_programs_token,
                          [universities |-> universities.items,
                           selected |-> all_selected_universities.items,
                           keys |-> {}, violations |-> 0],
                          get_university_programs_outcome(active_tokens,
                              universities, exploration_token,
                              all_selected_universities, previous_programs_token))

-----------------------------------------------------------------------------
(* Step 4: shortlist_programs_by_name.                                     *)

\* A dict argument: None, a dict, or a value of another type.
DictArg(kind, map) == [kind |-> kind, map |-> map]

\* list(d.keys()): the keys in the order of the dict, one order per key set.
keys(d) == CHOOSE s \in Enumerations(DOMAIN d) : TRUE

\* sum(len(ids) for ids in d.values()), the values being lists.
RECURSIVE sum_ids(_)
sum_ids(d) ==
    IF DOMAIN d = {} THEN 0
    ELSE LET k == CHOOSE k \in DOMAIN d : TRUE
         IN  Len(d[k]) + sum_ids([j \in DOMAIN d \ {k} |-> d[j]])

Shortlists ==
    { DictArg("none", EmptyDict), DictArg("other", EmptyDict),
      DictArg("dict", EmptyDict),
      DictArg("dict", [u \in {"MIT"} |-> <<>>]),
      DictArg("dict", [u \in {"MIT"} |-> <<1>>]),
      DictArg("dict", [u \in {"MIT", "Yale"} |->
                          IF u = "MIT" THEN <<1, 2>> ELSE <<3>>]) }

shortlist_programs_by_name_outcome(store, shortlisted_by_university, programs_token) ==
    LET invalid == validate_token(store, programs_token, "programs")
    IN  IF invalid # ""
        THEN Raise(invalid)
        ELSE IF shortlisted_by_university.kind # "dict"
                \/ DOMAIN shortlisted_by_university.map = {}
        THEN Raise("You must provide shortlisted_by_university as a dict")
        ELSE IF sum_ids(shortlisted_by_university.map) = 0
        THEN Raise("You must shortlist at least some programs")
        ELSE LET programs_data == token_data(store, programs_token)
             IN  Return([universities |-> keys(shortlisted_by_university.map),
                         shortlisted_by_university |-> shortlisted_by_university.map,
                         total_shortlisted |-> sum_ids(shortlisted_by_university.map),
                         career_clarity |->
                             get(programs_data, "career_clarity", "medium"),
                         total_selected_universities |->
                             get(programs_data, "total_selected_universities", <<>>)],
                        FALSE, {})

shortlist_programs_by_name(shortlists, max) ==
    /\ Room("shortlist", max)
    /\ \E shortlisted_by_university \in shortlists, programs_token \in TokenArgs :
          Respond("shortlist_programs_by_name", "shortlist", <<"programs", "">>,
                  programs_token, NoToken, NoArgs,
                  shortlist_programs_by_name_outcome(active_tokens,
                      shortlisted_by_university, programs_token))

-----------------------------------------------------------------------------
(* Step 5: validate_programs_with_web.                                     *)

\* The default of a search that omits num_results.
DefaultNumResults == 5
\* The range of num_results of a performed program search.
MinNumResults == 3
MaxNumResults == 8

\* str(prog_id): the key of program_searches (JSON object keys are strings).
str(prog_id) == ToString(prog_id)

\* The "search" value of a program_searches entry: absent, a dict with the
\* keys `fields`, or a value of another type.
Search(kind, fields, skipped, num_type, num, known_info) ==
    [kind |-> kind, fields |-> fields, skipped |-> skipped,
     num_results |-> [type |-> num_type, value |-> num],
     known_info |-> known_info]

\* An entry of program_searches; program_name "" is absent or empty.
ProgramSearch(is_dict, program_name, search) ==
    [is_dict |-> is_dict, program_name |-> program_name, search |-> search]

\* One university's entry of web_validations.  third_round_program_ids is
\* absent, a list, a string or an int; program_searches is absent, a dict or
\* a value of another type; final_program_ids is absent, a list or a value of
\* another type.
Validation(is_dict, third, searches, final) ==
    [is_dict |-> is_dict, third_round_program_ids |-> third,
     program_searches |-> searches, final_program_ids |-> final]

Absent == ListArg("absent", <<>>)
AbsentDict == DictArg("absent", EmptyDict)

PerformedSearch == Search("dict", {"skipped", "query", "findings"}, FALSE, "int", 0, "")
SkippedSearch == Search("dict", {"skipped"}, TRUE, "int", 0, "")

\* A search that omits num_results and is left as it came.
default_num_results_unfilled(search) == search

\* search["num_results"] = 5, for a search that omits num_results.
default_num_results(search) ==
    [search EXCEPT !.num_results = [type |-> "int", value |-> DefaultNumResults],
                   !.fields = @ \cup {"num_results"}]

\* program_info_map.get(prog_id, f"Program {prog_id}")
program_name_of(program_info_map, prog_id) ==
    IF prog_id \in DOMAIN program_info_map
    THEN program_info_map[prog_id]
    ELSE "Program " \o str(prog_id)

\* One error line of the batch report.
Error(uni, program, message) ==
    [uni |-> uni, program |-> program, message |-> message]

\* The body of the loop over third_round_ids for one program: acc holds the
\* errors collected so far, the exception that escaped (if any), the counts
\* and the program_searches dict, which the loop fills in place.
check_program(uni, prog_id, program_info_map, acc) ==
    LET k == str(prog_id)
        fail(message) ==
            [acc EXCEPT !.errors = Append(@, Error(uni, prog_id, message))]
    IN  IF k \notin DOMAIN acc.map
        THEN fail("passed Round 3 but has no search entry in program_searches")
        ELSE IF ~acc.map[k].is_dict
        THEN fail("search entry must be a dict")
        ELSE
        LET prog_search ==
                IF acc.map[k].program_name = ""
                THEN [acc.map[k] EXCEPT !.program_name =
                          program_name_of(program_info_map, prog_id)]
                ELSE acc.map[k]
            named == [acc EXCEPT !.map[k] = prog_search]
            failn(message) ==
                [named EXCEPT !.errors = Append(@, Error(uni, prog_id, message))]
            search == prog_search.search
        IN  IF search.kind = "absent"
            THEN failn("missing 'search' field")
            ELSE IF search.kind # "dict"
            THEN failn("search must be a dict")
            ELSE IF "skipped" \notin search.fields
            THEN failn("search missing 'skipped' field")
            ELSE IF search.skipped
            THEN [named EXCEPT
                    !.map[k].search.known_info =
                        IF @ = ""
                        THEN "Program validated based on general knowledge of "
                                 \o prog_search.program_name
                        ELSE @,
                    !.map[k].search.fields = @ \cup {"known_info"},
                    !.total_skipped = @ + 1]
            ELSE IF "query" \notin search.fields
            THEN failn("search missing 'query' field (required when not skipped)")
            ELSE IF "num_results" \notin search.fields
            THEN [named EXCEPT
                    !.map[k].search = default_num_results(@),
                    !.total_searches = @ + 1]
            ELSE IF search.num_results.type # "int"
            THEN [named EXCEPT !.crash = "TypeError"]   \* 3 <= "5" <= 8
            ELSE IF ~(MinNumResults <= search.num_results.value
                      /\ search.num_results.value <= MaxNumResults)
            THEN failn("search num_results must be 3-8")
            ELSE [named EXCEPT !.total_searches = @ + 1]

\* for prog_id in third_round_ids: ...
RECURSIVE check_programs(_, _, _, _)
check_programs(uni, third_round_ids, program_info_map, acc) ==
    IF third_round_ids = <<>> \/ acc.crash # ""
    THEN acc
    ELSE check_programs(uni, Tail(third_round_ids), program_info_map,
             check_program(uni, Head(third_round_ids), program_info_map, acc))

\* The body of the loop over web_validations.items() for one university:
\* acc holds the errors, the exception that escaped, the counts, all_final_ids
\* and the validations as filled in so far.
check_university(uni, program_info_map, acc) ==
    LET validation == acc.validations[uni]
        fail(message) ==
            [acc EXCEPT !.errors = Append(@, Error(uni, 0, message))]
    IN  IF ~validation.is_dict
        THEN fail("validation must be a dict")
        ELSE IF validation.third_round_program_ids.kind = "absent"
        THEN fail("missing 'third_round_program_ids'")
        ELSE IF validation.third_round_program_ids.kind # "list"
        THEN fail("third_round_program_ids must be a list")
        ELSE IF validation.program_searches.kind = "absent"
        THEN fail("missing 'program_searches'")
        ELSE IF validation.program_searches.kind # "dict"
        THEN fail("program_searches must be a dict")
        ELSE
        LET checked ==
                check_programs(uni, validation.third_round_program_ids.items,
                    program_info_map,
                    [errors |-> acc.errors, crash |-> acc.crash,
                     total_searches |-> acc.total_searches,
                     total_skipped |-> acc.total_skipped,
                     map |-> validation.program_searches.map])
            after ==
                [acc EXCEPT !.errors = checked.errors,
                            !.crash = checked.crash,
                            !.total_searches = checked.total_searches,
                            !.total_skipped = checked.total_skipped,
                            !.validations[uni].program_searches.map = checked.map]
            failed(message) ==
                [after EXCEPT !.errors = Append(@, Error(uni, 0, message))]
        IN  IF checked.crash # ""
            THEN after
            ELSE IF validation.final_program_ids.kind = "absent"
            THEN failed("missing 'final_program_ids'")
            ELSE IF validation.final_program_ids.kind # "list"
            THEN failed("final_program_ids must be a list")
            ELSE [after EXCEPT !.all_final_ids =
                                   @ \o validation.final_program_ids.items]

\* for uni, validation in web_validations.items(): ...
RECURSIVE check_universities(_, _, _)
check_universities(unis, program_info_map, acc) ==
    IF unis = <<>> \/ acc.crash # ""
    THEN acc
    ELSE check_universities(Tail(unis), program_info_map,
             check_university(Head(unis), program_info_map, acc))

\* The loop that gathers all_prog_ids before the validation loop: the
\* exception it raises, "" when it ends.
\*   validation.get(...)        on a value that is no dict: AttributeError
\*   all_prog_ids.update(<int>) : TypeError
RECURSIVE gather_crash(_, _)
gather_crash(unis, validations) ==
    IF unis = <<>> THEN ""
    ELSE LET validation == validations[Head(unis)]
         IN  IF ~validation.is_dict THEN "AttributeError"
             ELSE IF validation.third_round_program_ids.kind = "int"
             THEN "TypeError"
             ELSE gather_crash(Tail(unis), validations)

\* The universities of the shortlist call alone, as before v1.14.
shortlist_expected_unis_of_call(shortlist_data) == shortlist_data.universities

\* expected_unis: total_selected_universities, or the shortlist's own
\* universities when that list is absent or empty.
shortlist_expected_unis(shortlist_data) ==
    IF get(shortlist_data, "total_selected_universities", <<>>) # <<>>
    THEN shortlist_data.total_selected_universities
    ELSE shortlist_data.universities

validate_programs_with_web_outcome(store, web_validations, shortlist_token, previous_validation_token) ==
    LET invalid == validate_token(store, shortlist_token, "shortlist")
        chained == previous_validation_token # NoToken
        invalid_previous ==
            IF chained
            THEN validate_token(store, previous_validation_token, "validation")
            ELSE ""
    IN  IF invalid # ""
        THEN Raise(invalid)
        ELSE IF web_validations.kind # "dict" \/ DOMAIN web_validations.map = {}
        THEN Raise("You must provide web_validations as a dict")
        ELSE IF KeyError(token_data(store, shortlist_token), {"universities"})
        THEN Crash("KeyError")
        ELSE IF invalid_previous # ""
        THEN Raise(invalid_previous)
        ELSE
        LET shortlist_data == token_data(store, shortlist_token)
            career_clarity == get(shortlist_data, "career_clarity", "medium")
            expected_unis == shortlist_expected_unis(shortlist_data)
            previous_data == token_data(store, previous_validation_token)
            previously_validated ==
                IF chained THEN get(previous_data, "validated_universities", {})
                           ELSE {}
            previous_count == Cardinality(previously_validated)
            previous_program_ids ==
                IF chained THEN get(previous_data, "final_program_ids", <<>>)
                           ELSE <<>>
            previous_validations ==
                IF chained THEN get(previous_data, "web_validations", EmptyDict)
                           ELSE EmptyDict
            current_unis == DOMAIN web_validations.map
            duplicates == current_unis \cap previously_validated
            unis == keys(web_validations.map)
            invalid_unis ==
                SelectSeq(unis, LAMBDA uni : uni \notin ToSet(expected_unis))
            gathered == gather_crash(unis, web_validations.map)
            all_prog_ids ==
                UNION { ToSet(web_validations.map[u].third_round_program_ids.items) :
                          u \in current_unis }
            program_details == _get_program_details_batch(all_prog_ids)
            program_info_map ==
                [id \in { p.program_id : p \in program_details } |->
                    (CHOOSE p \in program_details : p.program_id = id).program_name]
            checked ==
                check_universities(unis, program_info_map,
                    [errors |-> <<>>, crash |-> "", total_searches |-> 0,
                     total_skipped |-> 0, all_final_ids |-> <<>>,
                     validations |-> web_validations.map])
            cumulative_validated == previously_validated \cup current_unis
            remaining_unis == ToSet(expected_unis) \ cumulative_validated
            is_complete == Cardinality(remaining_unis) = 0
        IN  IF duplicates # {}
            THEN Raise("Universities already validated in previous batch")
            ELSE IF invalid_unis # <<>>
            THEN Raise("Invalid university names")
            ELSE IF gathered # ""
            THEN Crash(gathered)
            ELSE IF checked.crash # ""
            THEN Crash(checked.crash)
            ELSE IF checked.errors # <<>>
            THEN RaiseAll("Found validation error(s)", checked.errors)
            ELSE IF Len(checked.all_final_ids) = 0
            THEN Raise("No programs passed validation")
            ELSE Return([validated_universities |-> cumulative_validated,
                         total_universities_validated |->
                             previous_count + Cardinality(current_unis),
                         expected_universities |-> expected_unis,
                         remaining_universities |-> remaining_unis,
                         is_complete |-> is_complete,
                         web_searches_completed |-> checked.total_searches,
                         final_program_ids |->
                             previous_program_ids \o checked.all_final_ids,
                         web_validations |->
                             merge(previous_validations, checked.validations),
                         career_clarity |-> career_clarity],
                        is_complete, remaining_unis)

\* The contract rules of validate_programs_with_web that a payload violates:
\* per university an entry that is no dict, or else each of
\* third_round_program_ids, program_searches and final_program_ids that is
\* missing or of the wrong type, and per program of the third round a search
\* entry that is missing or malformed, or else each of a missing query and a
\* num_results out of range.
program_search_violations(program_searches, prog_id) ==
    LET k == str(prog_id)
        search == program_searches[k].search
    IN  IF k \notin DOMAIN program_searches THEN 1
        ELSE IF ~program_searches[k].is_dict THEN 1
        ELSE IF search.kind # "dict" THEN 1
        ELSE IF "skipped" \notin search.fields THEN 1
        ELSE IF search.skipped THEN 0
        ELSE (IF "query" \notin search.fields THEN 1 ELSE 0)
             + (IF /\ "num_results" \in search.fields
                   /\ \/ search.num_results.type # "int"
                      \/ search.num_results.value < MinNumResults
                      \/ search.num_results.value > MaxNumResults
                THEN 1 ELSE 0)

entry_violations(validation) ==
    LET third == validation.third_round_program_ids
        searches == validation.program_searches
    IN  IF ~validation.is_dict THEN 1
        ELSE (IF third.kind # "list" THEN 1 ELSE 0)
             + (IF searches.kind # "dict" THEN 1 ELSE 0)
             + (IF third.kind = "list" /\ searches.kind = "dict"
                THEN SumF([id \in ToSet(third.items) |->
                              program_search_violations(searches.map, id)])
                ELSE 0)
             + (IF validation.final_program_ids.kind # "list" THEN 1 ELSE 0)

validation_violations(web_validations) ==
    IF web_validations.kind # "dict" THEN 0
    ELSE SumF([uni \in DOMAIN web_validations.map |->
                  entry_violations(web_validations.map[uni])])

\* The first statement of the handler validates shortlist_token; when it
\* raises, no other argument has been read.
validate_programs_with_web(dicts, max) ==
    /\ Room("validation", max)
    /\ \E shortlist_token \in TokenArgs :
          IF validate_token(active_tokens, shortlist_token, "shortlist") # ""
          THEN Respond("validate_programs_with_web", "validation",
                       <<"shortlist", "validation">>, shortlist_token, NoToken,
                       NoArgs,
                       validate_programs_with_web_outcome(active_tokens,
                           DictArg("none", EmptyDict), shortlist_token, NoToken))
          ELSE \E web_validations \in dicts,
                  previous_validation_token \in TokenArgs :
                  Respond("validate_programs_with_web", "validation",
                          <<"shortlist", "validation">>, shortlist_token,
                          previous_validation_token,
                          [universities |-> <<>>, selected |-> <<>>,
                           keys |-> DOMAIN web_validations.map,
                           violations |-> validation_violations(web_validations)],
                          validate_programs_with_web_outcome(active_tokens,
                              web_validations, shortlist_token,
                              previous_validation_token))

-----------------------------------------------------------------------------
(* Step 6: score_and_rank_programs.                                        *)

top_tier_keywords ==
    { "stanford", "mit", "harvard", "berkeley", "cmu", "carnegie mellon",
      "oxford", "cambridge", "imperial", "eth zurich",
      "national university of singapore", "nus", "nanyang", "ntu",
      "tsinghua", "peking", "hku", "university of hong kong",
      "hkust", "hong kong university of science", "cuhk",
      "chinese university of hong kong" }

high_tier_keywords ==
    { "cornell", "columbia", "princeton", "yale", "upenn", "pennsylvania",
      "michigan", "ucla", "ucsd", "usc", "georgia tech",
      "toronto", "waterloo", "mcgill", "ubc",
      "cityu", "city university of hong kong", "polyu",
      "polytechnic university" }

mid_tier_keywords ==
    { "washington", "wisconsin", "illinois", "texas", "boston university",
      "northeastern", "purdue", "duke", "northwestern" }

\* `keyword in uni_name_lower`: a name of the model is a keyword itself or
\* contains no keyword, so containment is equality.
contains(uni_name_lower, keyword) == keyword = uni_name_lower

\* Reputation scores (0-100 scale).
TopTierScore == 97
HighTierScore == 89
MidTierScore == 77
DefaultScore == 70

_estimate_university_reputation(uni_name_lower) ==
    IF \E keyword \in top_tier_keywords : contains(uni_name_lower, keyword)
    THEN TopTierScore
    ELSE IF \E keyword \in high_tier_keywords : contains(uni_name_lower, keyword)
    THEN HighTierScore
    ELSE IF \E keyword \in mid_tier_keywords : contains(uni_name_lower, keyword)
    THEN MidTierScore
    ELSE DefaultScore

\* Base fit score of a validated program.
FitScore == 85

\* Weights with the two ends of the table exchanged.
weights_exchanged(career_clarity) ==
    IF career_clarity = "high" THEN <<7, 3>>
    ELSE IF career_clarity = "low" THEN <<3, 7>>
    ELSE <<5, 5>>

\* Weights that leave the reputation out for a high career clarity.
weights_fit_only_when_high(career_clarity) ==
    IF career_clarity = "high" THEN <<0, 10>>
    ELSE IF career_clarity = "low" THEN <<7, 3>>
    ELSE <<5, 5>>

\* The scoring weights, in tenths: <<reputation_weight, fit_weight>>.
weights(career_clarity) ==
    IF career_clarity = "high" THEN <<3, 7>>
    ELSE IF career_clarity = "low" THEN <<7, 3>>
    ELSE <<5, 5>>

\* The report switches to TOP_20 from this number of universities on.
Top20Universities == 7
Top20Detailed == 10
Top20Concise == 10
Top20Searches == 30
Top10Detailed == 5
Top10Concise == 0
Top10Searches == 15

\* A scale that switches above the boundary.
report_scale_above(universities_count) ==
    IF universities_count > Top20Universities
    THEN [report_format |-> "TOP_20", detailed_count |-> Top20Detailed,
          concise_count |-> Top20Concise, required_searches |-> Top20Searches]
    ELSE [report_format |-> "TOP_10", detailed_count |-> Top10Detailed,
          concise_count |-> Top10Concise, required_searches |-> Top10Searches]

\* Determine report format.
report_scale(universities_count) ==
    IF universities_count >= Top20Universities
    THEN [report_format |-> "TOP_20", detailed_count |-> Top20Detailed,
          concise_count |-> Top20Concise, required_searches |-> Top20Searches]
    ELSE [report_format |-> "TOP_10", detailed_count |-> Top10Detailed,
          concise_count |-> Top10Concise, required_searches |-> Top10Searches]

\* The first n elements of s: s[:n].
Prefix(s, n) == SubSeq(s, 1, IF n < Len(s) THEN n ELSE Len(s))

\* A sort by ascending score.
sort_before_ascending(p, q) ==
    \/ p.score < q.score
    \/ p.score = q.score /\ p.program_id < q.program_id

\* programs.sort(key=score, reverse=True): p comes before q.  The query
\* returns the rows in the order of their ids and list.sort is stable, so rows
\* of equal score stay in that order.
sort_before(p, q) ==
    \/ p.score > q.score
    \/ p.score = q.score /\ p.program_id < q.program_id

\* The scored rows, sorted and ranked.  The score is kept in tenths.
rank_programs(rows, career_clarity) ==
    LET w == weights(career_clarity)
        scored(r) ==
            LET reputation_score ==
                    _estimate_university_reputation(lower(r.university_name))
            IN  [program_id |-> r.program_id,
                 program_name |-> r.program_name,
                 university_name |-> r.university_name,
                 reputation_score |-> reputation_score,
                 fit_score |-> FitScore,
                 score |-> reputation_score * w[1] + FitScore * w[2]]
        programs == { scored(r) : r \in rows }
        position(p) == 1 + Cardinality({ q \in programs : sort_before(q, p) })
        sorted ==
            [i \in 1..Cardinality(programs) |->
                CHOOSE p \in programs : position(p) = i]
    IN  [i \in 1..Len(sorted) |->
            [program_id |-> sorted[i].program_id,
             program_name |-> sorted[i].program_name,
             university_name |-> sorted[i].university_name,
             reputation_score |-> sorted[i].reputation_score,
             fit_score |-> sorted[i].fit_score,
             score |-> sorted[i].score,
             rank |-> i]]

score_and_rank_programs_outcome(store, validation_token) ==
    LET invalid == validate_token(store, validation_token, "validation")
    IN  IF invalid # ""
        THEN Raise(invalid)
        ELSE
        LET validation_data == token_data(store, validation_token)
            career_clarity == get(validation_data, "career_clarity", "medium")
            final_ids == validation_data.final_program_ids
            universities_count == validation_data.total_universities_validated
            programs ==
                rank_programs(_get_program_details_batch(ToSet(final_ids)),
                              career_clarity)
            scale == report_scale(universities_count)
            detailed_count == scale.detailed_count
            concise_count == scale.concise_count
            w == weights(career_clarity)
        IN  IF ~get(validation_data, "is_complete", FALSE)
            THEN Raise("VALIDATION INCOMPLETE")
            ELSE IF KeyError(validation_data,
                             {"final_program_ids", "total_universities_validated"})
            THEN Crash("KeyError")
            ELSE Return([report_format |-> scale.report_format,
                         detailed_tier_count |-> detailed_count,
                         concise_tier_count |-> concise_count,
                         required_exa_searches |-> scale.required_searches,
                         top_programs |->
                             Prefix(programs, detailed_count + concise_count),
                         total_universities_validated |-> universities_count,
                         career_clarity |-> career_clarity,
                         reputation_weight |-> w[1],
                         fit_weight |-> w[2]],
                        FALSE, {})

score_and_rank_programs(max) ==
    /\ Room("ranking", max)
    /\ \E validation_token \in TokenArgs :
          Respond("score_and_rank_programs", "ranking", <<"validation", "">>,
                  validation_token, NoToken, NoArgs,
                  score_and_rank_programs_outcome(active_tokens, validation_token))

-----------------------------------------------------------------------------
(* Step 7: generate_final_report.                                          *)

\* Minimum length of the findings of a search, of a field of a summary.
MinFindings == 50
MinSummaryField == 30

\* The same number of results for each of the three searches.
expected_results_uniform == <<4, 4, 4>>

expected_results == <<4, 8, 4>>

required_dims ==
    <<"location_environment", "career_prospects", "program_intensity",
      "unique_features", "application_timeline", "total_cost">>

summary_fields == <<"quick_facts", "fit_reasoning", "application_notes">>

\* A text value, by what the handler looks at: whether it is a string, its
\* length and the length of its strip().
Text(type, len, stripped) == [type |-> type, len |-> len, stripped |-> stripped]

\* One entry of exa_searches: a dict with the keys `fields`, or another value.
ExaSearch(is_dict, fields, num_results, findings, source) ==
    [is_dict |-> is_dict, fields |-> fields, num_results |-> num_results,
     findings |-> findings, source |-> source]

\* One entry of detailed_program_research; program_id 0 is absent or falsy;
\* dimensions is a dict of section name -> content.
Research(is_dict, program_id, exa_searches, dimensions) ==
    [is_dict |-> is_dict, program_id |-> program_id,
     exa_searches |-> exa_searches, dimensions |-> dimensions]

\* The dimensions that hold the sections `names`, each with a content of len
\* characters (0: an empty one).
Dimensions(names, len) == [dim \in names |-> Text("str", len, len)]

GoodDimensions == Dimensions(ToSet(required_dims), 60)

\* One entry of concise_program_research; summary is absent, a dict of the
\* fields `fields` (name -> text), or another value.
Concise(is_dict, program_id, summary_kind, fields, source) ==
    [is_dict |-> is_dict, program_id |-> program_id,
     summary |-> [kind |-> summary_kind, fields |-> fields],
     source |-> source]

\* An error of the report step: the program and the search (1-based, 0 when
\* the error is about the program) the message names.
ReportError(program, search, message) ==
    [program |-> program, search |-> search, message |-> message]

RaiseReport(program, search, message) ==
    RaiseAll(message, <<ReportError(program, search, message)>>)

\* A findings check that lets every search through.
has_findings_unchecked(search) == TRUE

\* "findings" in search
has_findings(search) == "findings" \in search.fields

\* The checks of the loop over exa_searches for search j of a program: the
\* message of the error raised, "" when the search passes.
check_exa_search(search, j) ==
    IF ~search.is_dict THEN "must be a dict"
    ELSE IF "num_results" \notin search.fields THEN "missing 'num_results' field"
    ELSE IF search.num_results # expected_results[j]
    THEN "must have EXACTLY the expected results"
    ELSE IF ~has_findings(search) THEN "missing 'findings' field"
    ELSE IF search.findings.type # "str" \/ search.findings.len = 0
    THEN "'findings' must be a non-empty string"
    ELSE IF search.findings.stripped < MinFindings THEN "'findings' too short"
    ELSE IF "source" \in search.fields
            /\ search.source \notin {"exa", "llm_knowledge"}
    THEN "'source' must be one of the valid sources"
    ELSE ""

\* The body of the loop over detailed_program_research for one entry: the
\* outcome that ends the handler, or the number of searches validated.
check_research(research) ==
    LET bad == { j \in 1..3 : check_exa_search(research.exa_searches[j], j) # "" }
        first == CHOOSE j \in bad : \A k \in bad : j <= k
        missing_dims ==
            SelectSeq(required_dims,
                      LAMBDA dim : dim \notin DOMAIN research.dimensions)
    IN  IF ~research.is_dict
        THEN [raised |-> TRUE, out |-> Crash("AttributeError"), searches |-> 0]
        ELSE IF research.program_id = 0
        THEN [raised |-> TRUE, searches |-> 0,
              out |-> RaiseReport(0, 0, "missing program_id")]
        ELSE IF Len(research.exa_searches) # 3
        THEN [raised |-> TRUE, searches |-> 0,
              out |-> RaiseReport(research.program_id, 0,
                                  "must have EXACTLY 3 Exa searches")]
        ELSE IF bad # {}
        THEN [raised |-> TRUE, searches |-> first - 1,
              out |-> RaiseReport(research.program_id, first,
                          check_exa_search(research.exa_searches[first], first))]
        ELSE IF missing_dims # <<>>
        THEN [raised |-> TRUE, searches |-> 3,
              out |-> RaiseReport(research.program_id, 0, "missing dimensions")]
        ELSE [raised |-> FALSE, searches |-> 3, out |-> Raise("")]

\* The body of the loop over concise_program_research for one entry: the
\* outcome that ends the handler, or none.
check_concise(research) ==
    LET summary == research.summary
        problem(field) ==
            IF field \notin DOMAIN summary.fields \/ summary.fields[field].len = 0
            THEN "missing field in summary"
            ELSE IF summary.fields[field].type # "str"
                    \/ summary.fields[field].stripped < MinSummaryField
            THEN "field must be a string with at least 30 characters"
            ELSE ""
        bad == { i \in 1..Len(summary_fields) : problem(summary_fields[i]) # "" }
        first == CHOOSE i \in bad : \A k \in bad : i <= k
    IN  IF ~research.is_dict
        THEN [raised |-> TRUE, out |-> Crash("AttributeError")]
        ELSE IF research.program_id = 0
        THEN [raised |-> TRUE,
              out |-> RaiseReport(0, 0, "Tier 2: missing program_id")]
        ELSE IF summary.kind # "dict" \/ DOMAIN summary.fields = {}
        THEN [raised |-> TRUE,
              out |-> RaiseReport(research.program_id, 0,
                                  "Tier 2: missing or invalid 'summary' dict")]
        ELSE IF bad # {}
        THEN [raised |-> TRUE,
              out |-> RaiseReport(research.program_id, 0,
                                  problem(summary_fields[first]))]
        ELSE IF research.source \notin {"", "llm_knowledge", "exa"}
        THEN [raised |-> TRUE,
              out |-> RaiseReport(research.program_id, 0,
                                  "Tier 2: source must be 'llm_knowledge' or 'exa'")]
        ELSE [raised |-> FALSE, out |-> Raise("")]

\* sum of f[i] over i in 1..n
RECURSIVE sum_to(_, _)
sum_to(f, n) == IF n = 0 THEN 0 ELSE f[n] + sum_to(f, n - 1)

generate_final_report_outcome(store, detailed_program_research, ranking_token, concise_program_research) ==
    LET invalid == validate_token(store, ranking_token, "ranking")
    IN  IF invalid # ""
        THEN Raise(invalid)
        ELSE IF KeyError(token_data(store, ranking_token),
                         {"report_format", "detailed_tier_count",
                          "required_exa_searches"})
        THEN Crash("KeyError")
        ELSE
        LET ranking_data == token_data(store, ranking_token)
            detailed_count == ranking_data.detailed_tier_count
            concise_count == get(ranking_data, "concise_tier_count", 0)
            required_searches == ranking_data.required_exa_searches
            detailed == detailed_program_research.items
            concise == concise_program_research.items
            checked == [i \in 1..Len(detailed) |-> check_research(detailed[i])]
            raising == { i \in 1..Len(detailed) : checked[i].raised }
            first == CHOOSE i \in raising : \A k \in raising : i <= k
            checked2 == [i \in 1..Len(concise) |-> check_concise(concise[i])]
            raising2 == { i \in 1..Len(concise) : checked2[i].raised }
            first2 == CHOOSE i \in raising2 : \A k \in raising2 : i <= k
            total_searches ==
                sum_to([i \in 1..Len(detailed) |-> checked[i].searches],
                       Len(detailed))
        IN  IF ~truthy(detailed_program_research)
               \/ Len(detailed) # detailed_count
            THEN Raise("Tier 1 (detailed): wrong number of programs")
            ELSE IF concise_count > 0 /\ ~truthy(concise_program_research)
            THEN Raise("Tier 2 (concise): format requires Tier 2 summaries")
            ELSE IF concise_count > 0 /\ Len(concise) # concise_count
            THEN Raise("Tier 2 (concise): wrong number of programs")
            ELSE IF raising # {}
            THEN checked[first].out
            ELSE IF truthy(concise_program_research) /\ raising2 # {}
            THEN checked2[first2].out
            ELSE IF total_searches # required_searches
            THEN Raise("Wrong total of Exa searches for Tier 1")
            ELSE Return(NoData, FALSE, {})

\* The first statement of the handler validates ranking_token; when it
\* raises, no other argument has been read.  The step mints no token.
\* The contract rules of generate_final_report that the detailed research
\* violates: per program an entry that is no dict, or else each of a missing
\* program_id, a number of searches that is not 3 (or else, per search, each
\* of a wrong num_results, bad findings and a bad source) and missing
\* dimensions.
exa_search_violations(search, j) ==
    IF ~search.is_dict THEN 1
    ELSE (IF "num_results" \notin search.fields
             \/ search.num_results # expected_results[j] THEN 1 ELSE 0)
         + (IF \/ "findings" \notin search.fields
               \/ search.findings.type # "str"
               \/ search.findings.stripped < MinFindings THEN 1 ELSE 0)
         + (IF "source" \in search.fields
               /\ search.source \notin {"exa", "llm_knowledge"} THEN 1 ELSE 0)

research_violations(research) ==
    IF ~research.is_dict THEN 1
    ELSE (IF research.program_id = 0 THEN 1 ELSE 0)
         + (IF Len(research.exa_searches) # 3 THEN 1
            ELSE SumF([j \in 1..3 |->
                          exa_search_violations(research.exa_searches[j], j)]))
         + (IF ToSet(required_dims) \ DOMAIN research.dimensions # {} THEN 1 ELSE 0)

report_violations(detailed_program_research) ==
    SumF([i \in 1..Len(detailed_program_research.items) |->
             research_violations(detailed_program_research.items[i])])

generate_final_report(detailed_lists, concise_lists) ==
    \E ranking_token \in TokenArgs :
        IF validate_token(active_tokens, ranking_token, "ranking") # ""
        THEN Respond("generate_final_report", "", <<"ranking", "">>,
                     ranking_token, NoToken, NoArgs,
                     generate_final_report_outcome(active_tokens,
                         ListArg("none", <<>>), ranking_token,
                         ListArg("none", <<>>)))
        ELSE \E detailed_program_research \in detailed_lists,
                concise_program_research \in concise_lists :
                Respond("generate_final_report", "", <<"ranking", "">>,
                        ranking_token, NoToken,
                        [NoArgs EXCEPT !.violations =
                            report_violations(detailed_program_research)],
                        generate_final_report_outcome(active_tokens,
                            detailed_program_research, ranking_token,
                            concise_program_research))

-----------------------------------------------------------------------------
(* The arguments the workflow is driven with.                              *)

\* tier_assessment: the three values of career_clarity, a variant in another
\* case and one with a blank, and an assessment rejected in each other way.
WorkflowAssessments ==
    { FullAssessment("high"), FullAssessment("medium"), FullAssessment("low"),
      FullAssessment("High"), FullAssessment("high "),
      TierAssessment("none", {}, "str", ""),
      TierAssessment("dict", ToSet(required_fields) \ {"career_clarity", "reasoning"},
                     "str", ""),
      TierAssessment("dict", ToSet(required_fields), "int", "") }

WorkflowSearches ==
    { [kind |-> "none", items |-> <<>>],
      [kind |-> "list", items |-> <<WebSearch(TRUE, {"num_results"}, "int", 0),
                                    WebSearch(FALSE, {}, "int", 0)>>] }

\* A web_searches list of one performed search without key_findings.
SearchWithoutFindings ==
    [kind |-> "list",
     items |-> <<WebSearch(TRUE, {"query", "num_results"}, "int", 5)>>]

\* Every request with every assessment and the searches above, and one call
\* that declares a search without key_findings.
WorkflowConsultations ==
    ConsultationInputs(Requests, WorkflowAssessments, WorkflowSearches)
    \cup ConsultationInputs(
             { [api_key |-> "sk_super", db_up |-> TRUE, current_usage |-> 0] },
             { FullAssessment("medium") }, { SearchWithoutFindings })

WorkflowCountries == {"USA", "Atlantis"}

\* Lists of the universities explore_universities returns for "USA", and one
\* list of a university it does not return.
WorkflowLists == ListArgs(USUniversities) \cup { ListArg("list", <<"Oxford">>) }

\* A university's entry that passes: every program of the third round has a
\* search entry, the first one performed (no program_name, no num_results),
\* the others skipped; the first program is kept.
GoodValidation(ids) ==
    Validation(TRUE, ListArg("list", ids),
        DictArg("dict",
            [k \in { str(id) : id \in ToSet(ids) } |->
                ProgramSearch(TRUE, "",
                    IF k = str(ids[1]) THEN PerformedSearch ELSE SkippedSearch)]),
        ListArg("list", <<ids[1]>>))

GoodValidationOf(uni) ==
    IF uni = "MIT" THEN GoodValidation(<<1, 2>>)
    ELSE IF uni = "Yale" THEN GoodValidation(<<3>>)
    ELSE GoodValidation(<<4>>)

\* Entries that break the contract: a value that is no dict; a dict without
\* third_round_program_ids and without final_program_ids; a search without
\* query and with num_results out of range; an empty final list.
BadValidations ==
    { Validation(FALSE, Absent, AbsentDict, Absent),
      Validation(TRUE, Absent, DictArg("dict", EmptyDict), Absent),
      Validation(TRUE, ListArg("list", <<1>>),
          DictArg("dict",
              [k \in {"1"} |->
                  ProgramSearch(TRUE, "MISM",
                      Search("dict", {"skipped", "num_results"}, FALSE, "int", 9, ""))]),
          ListArg("list", <<1>>)),
      Validation(TRUE, ListArg("list", <<>>), DictArg("dict", EmptyDict),
                 ListArg("list", <<>>)) }

\* The web_validations over the names S: None, a value that is no dict, the
\* empty dict, and for every non-empty set of names the dict of good entries
\* and the dicts with one entry replaced by one of `bad`.
WebValidations(S, bad) ==
    { DictArg("none", EmptyDict), DictArg("other", EmptyDict),
      DictArg("dict", EmptyDict) }
    \cup { DictArg("dict", [u \in K |-> GoodValidationOf(u)]) :
             K \in SUBSET S \ {{}} }
    \cup UNION { { DictArg("dict", [u \in K |-> IF u = x THEN b
                                                 ELSE GoodValidationOf(u)]) :
                     x \in K, b \in bad } : K \in SUBSET S \ {{}} }

WorkflowValidations == WebValidations(USUniversities, BadValidations)

GoodFindings == Text("str", 60, 60)

GoodExaSearch(j) ==
    ExaSearch(TRUE, {"query", "num_results", "findings", "source"},
              expected_results[j], GoodFindings, "exa")

GoodResearch(program_id) ==
    Research(TRUE, program_id,
             [j \in 1..3 |-> GoodExaSearch(j)], GoodDimensions)

\* Entries that break the contract: search 2 without findings; search 1 with
\* a wrong num_results and search 3 without findings; a value that is no
\* dict; dimensions missing.
BadResearch(program_id) ==
    { Research(TRUE, program_id,
          [j \in 1..3 |-> IF j = 2
                          THEN ExaSearch(TRUE, {"query", "num_results"}, 8,
                                         GoodFindings, "")
                          ELSE GoodExaSearch(j)],
          GoodDimensions),
      Research(TRUE, program_id,
          [j \in 1..3 |-> IF j = 1
                          THEN ExaSearch(TRUE, {"query", "num_results", "findings"},
                                         5, GoodFindings, "")
                          ELSE IF j = 3
                          THEN ExaSearch(TRUE, {"query", "num_results"}, 4,
                                         GoodFindings, "")
                          ELSE GoodExaSearch(j)],
          GoodDimensions),
      Research(FALSE, 0, <<>>, Dimensions({}, 0)),
      Research(TRUE, program_id, [j \in 1..3 |-> GoodExaSearch(j)],
               Dimensions({"total_cost"}, 60)) }

\* detailed_program_research: None, n entries for the programs 1..n (n one
\* short of, or equal to, the count of the TOP_10 report), and the full list
\* with its first or last entry replaced by a bad one.
WorkflowResearch ==
    { ListArg("none", <<>>) }
    \cup { ListArg("list", [i \in 1..n |-> GoodResearch(i)]) :
             n \in {Top10Detailed - 1, Top10Detailed} }
    \cup UNION { { ListArg("list", [i \in 1..Top10Detailed |->
                                       IF i = x THEN b ELSE GoodResearch(i)]) :
                     b \in BadResearch(x) } : x \in {1, Top10Detailed} }

WorkflowConcise == { ListArg("none", <<>>) }

-----------------------------------------------------------------------------
(* The specification.                                                      *)

NoResult ==
    [op |-> "", status |-> "", error |-> "", errors |-> <<>>,
     tokens |-> <<NoToken, NoToken>>, minted |-> NoToken,
     is_complete |-> FALSE, remaining_universities |-> {}, violations |-> 0,
     retry |-> FALSE]

\* No usage this month, no payment, no job.
InitOutside ==
    /\ mcp_usage = 0
    /\ payments = EmptyDict
    /\ jobs = EmptyDict
    /\ job_queue = <<>>
    /\ ledger = EmptyDict

Init ==
    /\ active_tokens = <<>>
    /\ lineage = <<>>
    /\ result = NoResult
    /\ InitOutside

Next ==
    \/ start_consultation(WorkflowConsultations, MaxLinear)
    \/ explore_universities(WorkflowCountries, MaxLinear)
    \/ get_university_programs(WorkflowLists, WorkflowLists, MaxLinear)
    \/ shortlist_programs_by_name(Shortlists, MaxLinear)
    \/ validate_programs_with_web(WorkflowValidations, MaxLinear)
    \/ score_and_rank_programs(MaxLinear)
    \/ generate_final_report(WorkflowResearch, WorkflowConcise)

\* The workflow with one token of every type.
Spec == Init /\ [][Next]_vars

-----------------------------------------------------------------------------
(* The workflow in batches: steps 3 and 5 are called until the store holds *)
(* MaxBatches tokens of their type.                                        *)

BatchConsultations ==
    ConsultationInputs({ [api_key |-> "sk_super", db_up |-> TRUE, current_usage |-> 0] },
                       { FullAssessment("high") },
                       { [kind |-> "none", items |-> <<>>] })

BatchCountries == {"USA"}

\* One list for every non-empty set of the universities of "USA".
BatchLists ==
    { ListArg("list", <<"MIT">>), ListArg("list", <<"Yale">>),
      ListArg("list", <<"MIT", "Yale">>) }

\* all_selected_universities: None, a part of the universities and all of them.
BatchSelections ==
    { ListArg("none", <<>>), ListArg("list", <<"MIT">>),
      ListArg("list", <<"MIT", "Yale">>) }

\* A shortlist of one university of the two.
BatchShortlists == { DictArg("dict", [u \in {"MIT"} |-> <<1>>]) }

BatchValidations ==
    { d \in WebValidations(USUniversities, {}) : d.kind = "dict" /\ d.map # EmptyDict }

\* The detailed research of a TOP_10 report.
BatchResearch ==
    { ListArg("list", [i \in 1..Top10Detailed |-> GoodResearch(i)]) }

NextBatches ==
    \/ start_consultation(BatchConsultations, MaxLinear)
    \/ explore_universities(BatchCountries, MaxLinear)
    \/ get_university_programs(BatchLists, BatchSelections, MaxBatches)
    \/ shortlist_programs_by_name(BatchShortlists, MaxLinear)
    \/ validate_programs_with_web(BatchValidations, MaxBatches)
    \/ score_and_rank_programs(MaxLinear)
    \/ generate_final_report(BatchResearch, WorkflowConcise)

SpecBatches == Init /\ [][NextBatches]_vars

-----------------------------------------------------------------------------
(* Scoring and ranking as a function of the validation it is given: the    *)
(* store holds one complete validation, of 1 to MaxValidated universities  *)
(* and of any programs of the table; score_and_rank_programs is called and *)
(* the report of the ranking is submitted.                                 *)

ProgramIds == { r.program_id : r \in programs_table }

\* A list of the ids in S, in ascending order.
RECURSIVE Ascending(_)
Ascending(S) ==
    IF S = {} THEN <<>>
    ELSE LET m == CHOOSE x \in S : \A y \in S : x <= y
         IN  <<m>> \o Ascending(S \ {m})

\* The payload of a complete validation of n universities that kept the
\* programs `ids` (the fields score_and_rank_programs reads, and the
\* universities).
CompleteValidation(n, ids, career_clarity) ==
    [validated_universities |-> { "University " \o ToString(k) : k \in 1..n },
     total_universities_validated |-> n,
     remaining_universities |-> {},
     is_complete |-> TRUE,
     final_program_ids |-> Ascending(ids),
     career_clarity |-> career_clarity]

RankingInputs ==
    { CompleteValidation(n, ids, c) :
        n \in 1..MaxValidated, ids \in SUBSET ProgramIds \ {{}},
        c \in {"high", "medium", "low"} }

InitRanking ==
    /\ \E data \in RankingInputs :
          active_tokens = <<[type |-> "validation", data |-> data]>>
    /\ lineage = <<[from |-> NoToken, previous |-> NoToken,
                    universities |-> <<>>, selected |-> <<>>, keys |-> {}]>>
    /\ result = NoResult
    /\ InitOutside

\* A detailed entry whose three searches declare the result counts `counts`.
ResearchCounting(program_id, counts) ==
    Research(TRUE, program_id,
             [j \in 1..Len(counts) |->
                 ExaSearch(TRUE, {"query", "num_results", "findings", "source"},
                           counts[j], GoodFindings, "exa")],
             GoodDimensions)

\* The result counts of the searches of one entry: the contract's, the
\* contract's in another order or with one count changed, and two or four
\* searches.
SearchCounts ==
    { <<4, 8, 4>>, <<8, 4, 4>>, <<4, 4, 8>>, <<4, 4, 4>>, <<4, 8, 5>>,
      <<4, 8>>, <<4, 8, 4, 4>> }

\* detailed_program_research of n entries, for n around the counts of the two
\* report formats, and the lists of either count whose last entry declares
\* the result counts above.
RankingResearch ==
    { ListArg("list", [i \in 1..n |-> GoodResearch(i)]) :
        n \in {Top10Detailed - 1, Top10Detailed, Top10Detailed + 1,
               Top20Detailed - 1, Top20Detailed, Top20Detailed + 1} }
    \cup { ListArg("list", [i \in 1..n |->
                               IF i = n THEN ResearchCounting(i, counts)
                               ELSE GoodResearch(i)]) :
             n \in {Top10Detailed, Top20Detailed}, counts \in SearchCounts }

GoodText == Text("str", 40, 40)

GoodConcise(program_id) ==
    Concise(TRUE, program_id, "dict", [f \in ToSet(summary_fields) |-> GoodText],
            "llm_knowledge")

\* concise_program_research: None, and the summaries of a TOP_20 report.
RankingConcise ==
    { ListArg("none", <<>>),
      ListArg("list", [i \in 1..Top20Concise |-> GoodConcise(Top20Detailed + i)]) }

\* The detailed research of a TOP_10 report whose entry i has the dimensions
\* given.
ResearchWithSections(i, dimensions) ==
    ListArg("list",
        [k \in 1..Top10Detailed |->
            IF k = i THEN [GoodResearch(k) EXCEPT !.dimensions = dimensions]
            ELSE GoodResearch(k)])

\* The submissions the ranking is reported with: the research of either
\* format as the contract has it, and that of a TOP_20 report with the result
\* counts of its last entry in another order, and that of a TOP_10 report
\* with an empty section in its last entry.
RankingReports ==
    { ListArg("list", [i \in 1..n |-> GoodResearch(i)]) :
        n \in {Top10Detailed, Top20Detailed} }
    \cup { ListArg("list", [i \in 1..Top20Detailed |->
                               IF i = Top20Detailed
                               THEN ResearchCounting(i, <<4, 4, 8>>)
                               ELSE GoodResearch(i)]) }
    \cup { ResearchWithSections(Top10Detailed,
                                [GoodDimensions EXCEPT !["total_cost"] = Text("str", 0, 0)]) }

NextRanking ==
    \/ score_and_rank_programs(MaxLinear)
    \/ generate_final_report(RankingReports, RankingConcise)

SpecRanking == InitRanking /\ [][NextRanking]_vars

-----------------------------------------------------------------------------
(* The chain of a token, read from the history.                            *)

\* The step whose token a step consumes.
Predecessor(token_type) ==
    CASE token_type = "exploration" -> "consultation"
      [] token_type = "programs" -> "exploration"
      [] token_type = "shortlist" -> "programs"
      [] token_type = "validation" -> "shortlist"
      [] token_type = "ranking" -> "validation"
      [] OTHER -> ""

\* The type of the token an operation consumes.
Consumed(op) ==
    CASE op = "explore_universities" -> "consultation"
      [] op = "get_university_programs" -> "exploration"
      [] op = "shortlist_programs_by_name" -> "programs"
      [] op = "validate_programs_with_web" -> "shortlist"
      [] op = "score_and_rank_programs" -> "validation"
      [] op = "generate_final_report" -> "ranking"
      [] OTHER -> ""

\* The target list declared on the first call of the chain of programs token i.
RECURSIVE chain_target(_)
chain_target(i) ==
    IF lineage[i].previous = NoToken
    THEN ToSet(lineage[i].selected)
    ELSE chain_target(lineage[i].previous)

\* The universities of the batches along the chain of programs token i.
RECURSIVE chain_processed(_)
chain_processed(i) ==
    ToSet(lineage[i].universities)
    \cup (IF lineage[i].previous = NoToken THEN {}
          ELSE chain_processed(lineage[i].previous))

\* The keys of the web_validations along the chain of validation token i.
RECURSIVE chain_validated(_)
chain_validated(i) ==
    lineage[i].keys
    \cup (IF lineage[i].previous = NoToken THEN {}
          ELSE chain_validated(lineage[i].previous))

\* The target list of the programs chain that validation token i descends from
\* (validation <- shortlist <- programs).
validation_target(i) == chain_target(lineage[lineage[i].from].from)

Programs == TokensOfType(active_tokens, "programs")
Validations == TokensOfType(active_tokens, "validation")
Rankings == TokensOfType(active_tokens, "ranking")

\* The consultation at the head of the chain of token i.
RECURSIVE root(_)
root(i) == IF lineage[i].from = NoToken THEN i ELSE root(lineage[i].from)

Consultations == TokensOfType(active_tokens, "consultation")

\* The tokens of the chain of consultation r.
chain(r) == { i \in DOMAIN active_tokens : root(i) = r }

-----------------------------------------------------------------------------
(* Two consultations at a time.  The handlers are coroutines without an    *)
(* await, so the calls of the two consultations interleave call by call.   *)

\* The first consultation declares a high career_clarity and the second one
\* a low one; every later token of a chain carries the value.
PairConsultations ==
    ConsultationInputs({ [api_key |-> "sk_super", db_up |-> TRUE, current_usage |-> 0] },
                       { FullAssessment(IF Consultations = {} THEN "high" ELSE "low") },
                       { [kind |-> "none", items |-> <<>>] })

PairLists == { ListArg("list", <<"MIT">>) }

PairValidations == { DictArg("dict", [u \in {"MIT"} |-> GoodValidationOf(u)]) }

\* The model's bound on a consultation: its chain holds at most MaxLinear
\* tokens of a type.
OneChainEach ==
    \A r \in Consultations :
        \A i, j \in chain(r) :
            active_tokens[i].type = active_tokens[j].type => i = j

NextPair ==
    \/ start_consultation(PairConsultations, MaxConsultations) /\ OneChainEach'
    \/ explore_universities(BatchCountries, MaxConsultations) /\ OneChainEach'
    \/ get_university_programs(PairLists, PairLists, MaxConsultations) /\ OneChainEach'
    \/ shortlist_programs_by_name(BatchShortlists, MaxConsultations) /\ OneChainEach'
    \/ validate_programs_with_web(PairValidations, MaxConsultations) /\ OneChainEach'
    \/ score_and_rank_programs(MaxConsultations) /\ OneChainEach'
    \/ generate_final_report(BatchResearch, WorkflowConcise) /\ OneChainEach'

SpecPair == Init /\ [][NextPair]_vars

-----------------------------------------------------------------------------
(* Two target lists in one store: get_university_programs is called first  *)
(* with the target "MIT" and then with the target "Yale", and every later  *)
(* step is called with any token of the store.                             *)

TargetLists == { ListArg("list", <<IF Programs = {} THEN "MIT" ELSE "Yale">>) }

TargetShortlists ==
    { DictArg("dict", [u \in {"MIT"} |-> <<1>>]),
      DictArg("dict", [u \in {"Yale"} |-> <<3>>]) }

TargetValidations ==
    { DictArg("dict", [u \in {uni} |-> GoodValidationOf(u)]) : uni \in USUniversities }

NextTargets ==
    \/ start_consultation(BatchConsultations, MaxLinear)
    \/ explore_universities(BatchCountries, MaxLinear)
    \/ get_university_programs(TargetLists, TargetLists, MaxBatches)
    \/ shortlist_programs_by_name(TargetShortlists, MaxBatches)
    \/ validate_programs_with_web(TargetValidations, MaxBatches)
    \/ score_and_rank_programs(MaxLinear)

SpecTargets == Init /\ [][NextTargets]_vars

-----------------------------------------------------------------------------
(* Usage metering: _internal_track_usage, and the quota of the first step. *)

\* What a call of _internal_track_usage finds outside the process.
TrackRequests == [api_key : ApiKeys, db_up : BOOLEAN]

\* The key has an active row that is no super key: the call is counted.
counted(api_key) ==
    /\ api_key \in DOMAIN api_keys
    /\ api_keys[api_key].is_active
    /\ ~api_keys[api_key].is_super_key

\* A database block whose exception reaches the caller.
track_usage_except_raised(usage_count) ==
    [status |-> "OperationalError", returned |-> "", usage_count |-> usage_count]

\* except: pass, then return ""
track_usage_except(usage_count) ==
    [status |-> "ok", returned |-> "", usage_count |-> usage_count]

\* The handler: what it returns and the usage_count it leaves.
_internal_track_usage_outcome(request, usage_count) ==
    IF request.api_key = "" \/ ~startswith_sk(request.api_key)
    THEN [status |-> "ok", returned |-> "", usage_count |-> usage_count]
    ELSE IF ~request.db_up
    THEN track_usage_except(usage_count)
    ELSE IF ~counted(request.api_key)
    THEN [status |-> "ok", returned |-> "", usage_count |-> usage_count]
    ELSE [status |-> "ok", returned |-> "", usage_count |-> usage_count + 1]

_internal_track_usage(requests, max) ==
    /\ mcp_usage < max
    /\ \E request \in requests :
          LET out == _internal_track_usage_outcome(request, mcp_usage)
          IN  /\ mcp_usage' = out.usage_count
              /\ result' = [NoResult EXCEPT !.op = "_internal_track_usage",
                                            !.status = out.status,
                                            !.error = out.returned]
    /\ UNCHANGED <<active_tokens, lineage, payments, jobs, job_queue, ledger>>

\* start_consultation of the key "sk_user" with the usage database up: the
\* quota block reads the usage_count the table holds.
QuotaConsultations ==
    ConsultationInputs({ [api_key |-> "sk_user", db_up |-> TRUE, current_usage |-> mcp_usage] },
                       { FullAssessment("medium") },
                       { [kind |-> "none", items |-> <<>>] })

NextQuota ==
    \/ start_consultation(QuotaConsultations, MaxStarted)
    \/ _internal_track_usage(TrackRequests, MaxUsage)
    \/ explore_universities(BatchCountries, MaxLinear)

\* One key that is no super key starts consultations; its usage is counted
\* when _internal_track_usage is called.
SpecQuota == Init /\ [][NextQuota]_vars

\* start_consultation of every key while the usage database is down.
OutageConsultations ==
    ConsultationInputs({ r \in Requests : ~r.db_up },
                       { FullAssessment("medium"), TierAssessment("none", {}, "str", "") },
                       { [kind |-> "none", items |-> <<>>] })

NextOutage ==
    \/ start_consultation(OutageConsultations, MaxStarted)
    \/ _internal_track_usage({ r \in TrackRequests : ~r.db_up }, MaxUsage)
    \/ explore_universities(WorkflowCountries, MaxLinear)

\* The first steps while the usage database is unavailable.
SpecOutage == Init /\ [][NextOutage]_vars


-----------------------------------------------------------------------------
(* The HTTP API (src/backend/api): payments, jobs and the job queue.  The  *)
(* endpoints are coroutines that await only the request body, so each call *)
(* is one step.  The worker that takes jobs from job_queue is not part of  *)
(* these sources; a job changes only through the endpoints below.          *)

\* class PaymentStatus(str, enum.Enum).
PaymentStatus ==
    [PAID |-> "paid", DELIVERED |-> "delivered",
     PENDING_RETRY |-> "pending_retry", REFUNDED |-> "refunded"]

PaymentIds == {"pi_1", "pi_2"}
Users == {"user_a", "user_b"}
None == "None"

\* The JSON bodies posted to /api/submit: the background, and the user_id
\* the frontend adds once the user is signed in.
Bodies ==
    { [background |-> "text"] } \cup
    { [background |-> "text", user_id |-> u] : u \in Users }

\* UserBackground(**body): the model declares the field `background` only,
\* and a field that is not declared is dropped.
UserBackground(body) == [field \in {"background"} |-> body[field]]

\* The response of an endpoint, with the tables as it leaves them.
Response(status, detail, job_id, db, hashes, queue) ==
    [status |-> status, detail |-> detail, job_id |-> job_id,
     payments |-> db, jobs |-> hashes, job_queue |-> queue]

\* raise HTTPException(status_code, detail) before anything is written.
HTTPException(status_code, detail, db, hashes, queue) ==
    Response(status_code, detail, None, db, hashes, queue)

\* str(uuid.uuid4()): an id no job has.
uuid4(hashes) == "job_" \o ToString(Cardinality(DOMAIN hashes) + 1)

\* POST /api/submit.
submit_background_outcome(db, hashes, queue, body, payment_id) ==
    LET user_id == get(UserBackground(body), "user_id", None)
        job_id == uuid4(hashes)
    IN  IF user_id = None
        THEN HTTPException("400", "User authentication required", db, hashes, queue)
        ELSE IF payment_id \notin DOMAIN db
        THEN HTTPException("402", "Payment not found", db, hashes, queue)
        ELSE IF db[payment_id].user_id # user_id
        THEN HTTPException("403", "Payment does not belong to this user",
                           db, hashes, queue)
        ELSE IF db[payment_id].status
                  \notin {PaymentStatus.PAID, PaymentStatus.PENDING_RETRY}
        THEN HTTPException("402", "Payment already used", db, hashes, queue)
        ELSE Response("ok", "queued", job_id,
                      [db EXCEPT ![payment_id].job_id = job_id,
                                 ![payment_id].status = PaymentStatus.PAID],
                      hashes @@ (job_id :> [status |-> "pending",
                                            user_background |-> "text",
                                            user_id |-> user_id,
                                            payment_id |-> payment_id,
                                            retry_count |-> None]),
                      <<job_id>> \o queue)

\* The entry of a payment in the history: Stripe refunds issued, and jobs
\* pushed onto job_queue for it.
Booked(book, payment_id, refunds, runs) ==
    [book EXCEPT ![payment_id] = [refunds |-> @.refunds + refunds,
                                  runs |-> @.runs + runs]]

ApiResult(op, out) ==
    [NoResult EXCEPT !.op = op, !.status = out.status, !.error = out.detail]

submit_background(bodies, max) ==
    /\ Cardinality(DOMAIN jobs) < max
    /\ \E body \in bodies, payment_id \in PaymentIds :
         LET out == submit_background_outcome(payments, jobs, job_queue,
                                              body, payment_id)
         IN  /\ payments' = out.payments
             /\ jobs' = out.jobs
             /\ job_queue' = out.job_queue
             /\ ledger' = IF out.status = "ok"
                          THEN Booked(ledger, payment_id, 0, 1)
                          ELSE ledger
             /\ result' = ApiResult("submit_background", out)
    /\ UNCHANGED <<active_tokens, lineage, mcp_usage>>

\* The events Stripe posts to /api/payment/webhook.
WebhookEvents ==
    [signature_ok : BOOLEAN,
     type : {"checkout.session.completed", "payment_intent.created"},
     payment_intent : PaymentIds,
     user_id : Users]

\* POST /api/payment/webhook: a completed checkout adds the payment; a second
\* event with the id of a payment breaks the primary key and is rolled back.
stripe_webhook_outcome(db, hashes, queue, event) ==
    IF ~event.signature_ok
    THEN HTTPException("400", "Invalid signature", db, hashes, queue)
    ELSE IF event.type # "checkout.session.completed"
    THEN Response("ok", "success", None, db, hashes, queue)
    ELSE IF event.payment_intent \in DOMAIN db
    THEN HTTPException("500", "Webhook processing failed", db, hashes, queue)
    ELSE Response("ok", "success", None,
                  db @@ (event.payment_intent :>
                           [user_id |-> event.user_id,
                            status |-> PaymentStatus.PAID,
                            job_id |-> None]),
                  hashes, queue)

stripe_webhook(events) ==
    /\ \E event \in events :
         LET out == stripe_webhook_outcome(payments, jobs, job_queue, event)
         IN  /\ payments' = out.payments
             /\ ledger' = IF DOMAIN out.payments # DOMAIN payments
                          THEN ledger @@ (event.payment_intent :>
                                            [refunds |-> 0, runs |-> 0])
                          ELSE ledger
             /\ result' = ApiResult("stripe_webhook", out)
    /\ UNCHANGED <<active_tokens, lineage, mcp_usage, jobs, job_queue>>

\* refund_failed_report refunds a payment of any status.
refundable_any(payment) == TRUE

\* `payment.status != PaymentStatus.PAID` raises: only a PAID payment is
\* refunded.
refundable(payment) == payment.status = PaymentStatus.PAID

\* POST /api/payment/refund/{payment_id}.  When stripe.Refund.create raises,
\* the handler goes on and marks the payment all the same.
refund_failed_report_outcome(db, hashes, queue, payment_id) ==
    IF payment_id \notin DOMAIN db
    THEN HTTPException("404", "Payment not found", db, hashes, queue)
    ELSE IF ~refundable(db[payment_id])
    THEN HTTPException("400", "Cannot refund payment", db, hashes, queue)
    ELSE Response("ok", "Refund issued", None,
                  [db EXCEPT ![payment_id].status = PaymentStatus.PENDING_RETRY],
                  hashes, queue)

refund_failed_report(stripe_up) ==
    /\ \E payment_id \in PaymentIds, refund_created \in stripe_up :
         LET out == refund_failed_report_outcome(payments, jobs, job_queue,
                                                 payment_id)
         IN  /\ payments' = out.payments
             /\ ledger' = IF out.status = "ok" /\ refund_created
                          THEN Booked(ledger, payment_id, 1, 0)
                          ELSE ledger
             /\ result' = ApiResult("refund_failed_report", out)
    /\ UNCHANGED <<active_tokens, lineage, mcp_usage, jobs, job_queue>>

\* RedisQueue.get_job_data(job_id) of workers/queue.py: the hash job:<id>,
\* empty when there is none.
get_job_data(hashes, job_id) ==
    IF job_id \in DOMAIN hashes THEN hashes[job_id] ELSE EmptyDict

\* The bodies posted to /api/payment/retry/{job_id}: none, or a
\* new_background of 20 characters or more (a shorter one does not pass the
\* RetryRequest model), of which `stripped` remain after strip().
RetryRequests ==
    { [new_background |-> None, stripped |-> 0],
      [new_background |-> "text", stripped |-> 25],
      [new_background |-> "text", stripped |-> 10] }

JobIds == { "job_" \o ToString(n) : n \in 1..MaxJobs }

\* POST /api/payment/retry/{job_id}.
manual_retry_report_outcome(db, hashes, queue, job_id, request) ==
    LET job_data == get_job_data(hashes, job_id)
        payment_id == get(job_data, "payment_id", None)
        requeued == [hashes EXCEPT ![job_id].retry_count = "0",
                                   ![job_id].status = "queued",
                                   ![job_id].user_background =
                                       IF request.new_background # None
                                       THEN request.new_background ELSE @]
    IN  IF job_data = EmptyDict
        THEN HTTPException("404", "job not found", db, hashes, queue)
        ELSE IF job_data.status \notin {"failed", "retry_scheduled"}
        THEN HTTPException("400", "job cannot be retried", db, hashes, queue)
        ELSE IF payment_id # None /\ payment_id \notin DOMAIN db
        THEN HTTPException("404", "payment not found", db, hashes, queue)
        ELSE IF /\ payment_id # None
                /\ db[payment_id].status # PaymentStatus.PENDING_RETRY
        THEN HTTPException("400", "payment cannot be retried", db, hashes, queue)
        ELSE IF request.new_background # None /\ request.stripped < 20
        THEN HTTPException("400", "new background too short", db, hashes, queue)
        ELSE Response("ok", "retry_queued", job_id, db, requeued,
                      <<job_id>> \o queue)

manual_retry_report(requests) ==
    /\ \E job_id \in JobIds, request \in requests :
         LET out == manual_retry_report_outcome(payments, jobs, job_queue,
                                                job_id, request)
             payment_id == get(get_job_data(jobs, job_id), "payment_id", None)
         IN  /\ jobs' = out.jobs
             /\ job_queue' = out.job_queue
             /\ ledger' = IF out.status = "ok" /\ payment_id \in DOMAIN ledger
                          THEN Booked(ledger, payment_id, 0, 1)
                          ELSE ledger
             /\ result' = ApiResult("manual_retry_report", out)
    /\ UNCHANGED <<active_tokens, lineage, mcp_usage, payments>>

NextApi ==
    \/ stripe_webhook(WebhookEvents)
    \/ submit_background(Bodies, MaxJobs)
    \/ refund_failed_report(BOOLEAN)
    \/ manual_retry_report(RetryRequests)

\* Payments arrive, and submissions, refunds and retries are requested, in
\* any order.
SpecApi == Init /\ [][NextApi]_vars

-----------------------------------------------------------------------------
(* Claims.                                                                 *)

\* The error validate_token owes for `token` where `expected_type` is expected.
Owed(token, expected_type) ==
    IF token \notin DOMAIN active_tokens THEN "Invalid or expired token"
    ELSE IF active_tokens[token].type # expected_type THEN "Wrong token type"
    ELSE ""

Offending(expected_type) == { t \in TokenArgs : Owed(t, expected_type) # "" }
Accepted(expected_type) == { t \in TokenArgs : Owed(t, expected_type) = "" }

Rejects(out, token, expected_type) ==
    out.status = "ValueError" /\ out.error = Owed(token, expected_type)

\* Every value of the store is the store of a state in which the last call
\* minted a token, or of the initial state: a property of the handlers as
\* functions of the store is evaluated in those states.
NewStore == result.op = "" \/ result.minted # NoToken

\* The token parameter every step validates first: an offending token is
\* rejected with the error owed, whatever the other arguments.
PrimaryTokenSafety ==
    /\ \A t \in Offending("consultation"), country \in Countries :
          Rejects(explore_universities_outcome(active_tokens, country, t),
                  t, "consultation")
    /\ \A t \in Offending("exploration"), u \in WorkflowLists,
          a \in WorkflowLists, p \in TokenArgs :
          Rejects(get_university_programs_outcome(active_tokens, u, t, a, p),
                  t, "exploration")
    /\ \A t \in Offending("programs"), d \in Shortlists :
          Rejects(shortlist_programs_by_name_outcome(active_tokens, d, t),
                  t, "programs")
    /\ \A t \in Offending("shortlist"), d \in WorkflowValidations, p \in TokenArgs :
          Rejects(validate_programs_with_web_outcome(active_tokens, d, t, p),
                  t, "shortlist")
    /\ \A t \in Offending("validation") :
          Rejects(score_and_rank_programs_outcome(active_tokens, t),
                  t, "validation")
    /\ \A t \in Offending("ranking"), d \in WorkflowResearch, c \in WorkflowConcise :
          Rejects(generate_final_report_outcome(active_tokens, d, t, c),
                  t, "ranking")

\* C1 (as amended): token type safety.  A token of another type, or a string
\* that is not in the store, is rejected with the wrong-token-type error,
\* respectively the invalid-token error: for the token a step validates first,
\* whatever the other arguments; for previous_programs_token and
\* previous_validation_token (a non-empty string), when the first token is
\* accepted and the batch argument is a non-empty list, respectively a
\* non-empty dict.  With another batch argument the call is rejected as well,
\* with a ValueError.
C1_TokenTypeSafety ==
    NewStore =>
        /\ PrimaryTokenSafety
        /\ \A t \in Accepted("exploration"),
              p \in Offending("programs") \ {NoToken},
              u \in WorkflowLists, a \in WorkflowLists :
              LET out == get_university_programs_outcome(active_tokens, u, t, a, p)
              IN  /\ out.status = "ValueError"
                  /\ u.kind = "list" /\ u.items # <<>> => Rejects(out, p, "programs")
        /\ \A t \in Accepted("shortlist"),
              p \in Offending("validation") \ {NoToken},
              d \in WorkflowValidations :
              LET out == validate_programs_with_web_outcome(active_tokens, d, t, p)
              IN  /\ out.status = "ValueError"
                  /\ d.kind = "dict" /\ d.map # EmptyDict => Rejects(out, p, "validation")

\* A call was rejected because a token argument has another type.
C1_Witness ==
    /\ result.op = "validate_programs_with_web"
    /\ result.error = "Wrong token type"

\* C1 as stated: the previous_* tokens too are rejected with the error owed
\* for all values of the other arguments.
C1_AnyArguments ==
    NewStore =>
        /\ PrimaryTokenSafety
        /\ \A t \in Accepted("exploration"),
              p \in Offending("programs") \ {NoToken},
              u \in WorkflowLists, a \in WorkflowLists :
              Rejects(get_university_programs_outcome(active_tokens, u, t, a, p),
                      p, "programs")
        /\ \A t \in Accepted("shortlist"),
              p \in Offending("validation") \ {NoToken},
              d \in WorkflowValidations :
              Rejects(validate_programs_with_web_outcome(active_tokens, d, t, p),
                      p, "validation")

\* C2: no step can be skipped.  Every token but a consultation token was
\* minted from a token of the step before (and, in a batch, from an earlier
\* token of its own step), so that the chain behind a token holds a successful
\* call of every earlier step in workflow order; and every successful call
\* consumed a token of the step before.
C2_NoStepSkipped ==
    /\ \A i \in DOMAIN active_tokens :
          active_tokens[i].type # "consultation" =>
              /\ lineage[i].from \in 1..(i - 1)
              /\ active_tokens[lineage[i].from].type
                     = Predecessor(active_tokens[i].type)
              /\ lineage[i].previous # NoToken =>
                     /\ lineage[i].previous \in 1..(i - 1)
                     /\ active_tokens[lineage[i].previous].type
                            = active_tokens[i].type
    /\ result.status = "ok" /\ Consumed(result.op) # "" =>
          /\ result.tokens[1] \in DOMAIN active_tokens
          /\ active_tokens[result.tokens[1]].type = Consumed(result.op)

\* The last step succeeded.
C2_Witness ==
    /\ result.op = "generate_final_report"
    /\ result.status = "ok"

\* C3: batch completeness of program retrieval.  In the programs token and in
\* the response of every successful get_university_programs call, is_complete
\* is true exactly when the universities of the batches along the chain are
\* the target declared on the chain's first call, and remaining_universities
\* is the target minus those universities.
C3_BatchCompleteness ==
    /\ \A i \in Programs :
          active_tokens[i].data.is_complete
              <=> (chain_processed(i) = chain_target(i))
    /\ result.op = "get_university_programs" /\ result.status = "ok" =>
          /\ result.is_complete
                 <=> (chain_processed(result.minted) = chain_target(result.minted))
          /\ result.remaining_universities
                 = chain_target(result.minted) \ chain_processed(result.minted)

\* A second batch completed a target that the first batch left incomplete.
C3_Witness ==
    /\ result.op = "get_university_programs"
    /\ result.status = "ok"
    /\ result.is_complete
    /\ result.remaining_universities = {}
    /\ lineage[result.minted].previous # NoToken
    /\ ~active_tokens[lineage[result.minted].previous].data.is_complete

\* C4: scoring is gated on complete validation.  Every ranking token was
\* minted from a validation token whose chain validated every university of
\* the target list, and score_and_rank_programs on a validation token with
\* is_complete false fails and mints nothing.
C4_ScoringGated ==
    /\ \A r \in Rankings :
          /\ lineage[r].from \in Validations
          /\ validation_target(lineage[r].from)
                 \subseteq chain_validated(lineage[r].from)
    /\ /\ result.op = "score_and_rank_programs"
       /\ result.tokens[1] \in Validations
       /\ ~active_tokens[result.tokens[1]].data.is_complete
       => result.status = "ValueError" /\ result.minted = NoToken

\* A ranking token was minted from a validation that took two batches.
C4_Witness ==
    /\ result.op = "score_and_rank_programs"
    /\ result.status = "ok"
    /\ lineage[result.tokens[1]].previous # NoToken
    /\ Cardinality(validation_target(result.tokens[1])) = 2

\* C5: re-submission of an already-processed university is rejected.  No
\* programs token was minted by a call whose batch holds a university of the
\* processed list of its previous_programs_token, and no validation token by a
\* call whose web_validations holds a university of the validated list of its
\* previous_validation_token; a call that is rejected for it mints nothing.
C5_NoResubmission ==
    /\ \A i \in Programs :
          lineage[i].previous # NoToken =>
              ToSet(lineage[i].universities)
              \cap ToSet(active_tokens[lineage[i].previous]
                             .data.cumulative_universities_processed) = {}
    /\ \A i \in Validations :
          lineage[i].previous # NoToken =>
              lineage[i].keys
              \cap active_tokens[lineage[i].previous].data.validated_universities
                  = {}
    /\ result.error \in { "Universities already processed in previous batch",
                          "Universities already validated in previous batch" }
          => result.status = "ValueError" /\ result.minted = NoToken

\* A batch was rejected for a university of the previous batch.
C5_Witness ==
    /\ result.op = "get_university_programs"
    /\ result.error = "Universities already processed in previous batch"
    /\ result.tokens[2] \in Programs

\* C6: a university outside the declared target list is rejected.  No
\* programs token was minted by a call whose batch holds a name outside the
\* target of its chain, and no validation token by a call whose
\* web_validations has a key outside that target; a call that is rejected for
\* it mints nothing.
C6_InsideTarget ==
    /\ \A i \in Programs :
          ToSet(lineage[i].universities) \subseteq chain_target(i)
    /\ \A i \in Validations :
          lineage[i].keys \subseteq validation_target(i)
    /\ result.error \in { "Invalid universities in current batch",
                          "Invalid university names" }
          => result.status = "ValueError" /\ result.minted = NoToken

\* web_validations was rejected for a key outside the target list.
C6_Witness ==
    /\ result.op = "validate_programs_with_web"
    /\ result.error = "Invalid university names"

\* C7: the chosen universities come from the enumerated universe.  Every
\* programs token of a first call was minted with all_selected_universities
\* among the universities of the exploration token the call consumed.
C7_ChosenFromEnumerated ==
    \A i \in Programs :
        lineage[i].previous = NoToken =>
            ToSet(lineage[i].selected)
            \subseteq ToSet(active_tokens[lineage[i].from].data.universities)

\* The errors a rejection enumerates: the lines of a batch report, or the one
\* error of a plain ValueError.
Enumerated == IF result.errors = <<>> THEN 1 ELSE Len(result.errors)

\* C8: aggregate validation.  A submission to start_consultation,
\* validate_programs_with_web or generate_final_report that violates k >= 2
\* contract rules is rejected with an error that enumerates all k.
C8_AllViolationsEnumerated ==
    result.status = "ValueError" /\ result.violations >= 2 =>
        Enumerated = result.violations

\* C9: a step call succeeds or fails with ValueError, never with another
\* exception.
C9_OnlyValueError == result.status \in {"", "ok", "ValueError"}

\* C10: a rejected call does not invalidate its input token.  A step that
\* fails leaves the token store as it was, so that the same step on the same
\* tokens finds what it would have found had the failed call not happened.
C10_RejectionKeepsTokens ==
    [][result'.status # "ok" =>
          active_tokens' = active_tokens /\ lineage' = lineage]_vars

\* validate_programs_with_web was rejected, called again on the same tokens
\* and accepted.
C10_Witness ==
    /\ result.op = "validate_programs_with_web"
    /\ result.status = "ok"
    /\ result.retry

\* The type of the token a step mints; "" for the step that mints none.
Minted(op) ==
    CASE op = "start_consultation" -> "consultation"
      [] op = "explore_universities" -> "exploration"
      [] op = "get_university_programs" -> "programs"
      [] op = "shortlist_programs_by_name" -> "shortlist"
      [] op = "validate_programs_with_web" -> "validation"
      [] op = "score_and_rank_programs" -> "ranking"
      [] OTHER -> ""

\* C11: the token store is insert-only.  No step call, successful or failed,
\* removes an entry of the store or changes its type or its payload, and the
\* store holds an entry for every token that was minted; so every token ever
\* minted is in the store as it was minted.
C11_InsertOnly ==
    [][/\ \A t \in DOMAIN active_tokens :
             /\ t \in DOMAIN active_tokens'
             /\ active_tokens'[t] = active_tokens[t]
       /\ DOMAIN active_tokens' = DOMAIN lineage']_vars

\* A second batch of validations was rejected, submitted again and accepted:
\* the store holds the tokens of six successful calls.
C11_Witness ==
    /\ result.op = "validate_programs_with_web"
    /\ result.status = "ok"
    /\ result.retry
    /\ lineage[result.minted].previous # NoToken

\* C12: one token per successful call.  A successful call of a step other
\* than generate_final_report adds exactly one entry to the store, of the
\* step's type and under a token that was not in the store, also when the
\* store holds a token of an earlier call with the same inputs; a failed call
\* and a call of generate_final_report add no entry.
C12_OneTokenPerSuccess ==
    [][IF result'.status = "ok" /\ Minted(result'.op) # ""
       THEN /\ result'.minted \notin DOMAIN active_tokens
            /\ DOMAIN active_tokens' = DOMAIN active_tokens \cup {result'.minted}
            /\ active_tokens'[result'.minted].type = Minted(result'.op)
       ELSE /\ result'.minted = NoToken
            /\ DOMAIN active_tokens' = DOMAIN active_tokens]_vars

\* A call was repeated with the inputs of an earlier call and minted a token
\* with the same payload.
C12_Witness ==
    /\ result.status = "ok"
    /\ result.minted # NoToken
    /\ \E i \in 1..(result.minted - 1) :
          /\ active_tokens[i] = active_tokens[result.minted]
          /\ lineage[i] = lineage[result.minted]

\* The store of a server on which consultation r runs alone: the tokens of
\* its chain.
alone(r) == [i \in chain(r) |-> active_tokens[i]]

\* C13: concurrent consultations are isolated.  Whatever calls of another
\* consultation came in between, a call of a step with tokens of the chain
\* of one consultation has the outcome, and mints the payload, that it has on
\* a server that holds the tokens of that chain only.  (start_consultation
\* reads no token.)
C13_Isolated ==
    NewStore =>
        \A r \in Consultations :
            /\ \A t \in chain(r), c \in BatchCountries :
                  explore_universities_outcome(active_tokens, c, t)
                      = explore_universities_outcome(alone(r), c, t)
            /\ \A t \in chain(r), p \in chain(r) \cup {NoToken},
                  u \in PairLists, a \in PairLists :
                  get_university_programs_outcome(active_tokens, u, t, a, p)
                      = get_university_programs_outcome(alone(r), u, t, a, p)
            /\ \A t \in chain(r), d \in BatchShortlists :
                  shortlist_programs_by_name_outcome(active_tokens, d, t)
                      = shortlist_programs_by_name_outcome(alone(r), d, t)
            /\ \A t \in chain(r), p \in chain(r) \cup {NoToken},
                  d \in PairValidations :
                  validate_programs_with_web_outcome(active_tokens, d, t, p)
                      = validate_programs_with_web_outcome(alone(r), d, t, p)
            /\ \A t \in chain(r) :
                  score_and_rank_programs_outcome(active_tokens, t)
                      = score_and_rank_programs_outcome(alone(r), t)
            /\ \A t \in chain(r), d \in BatchResearch, c \in WorkflowConcise :
                  generate_final_report_outcome(active_tokens, d, t, c)
                      = generate_final_report_outcome(alone(r), d, t, c)

\* Two consultations went through the workflow to the report, their calls
\* interleaved, and got rankings with different weights.
C13_Witness ==
    /\ result.op = "generate_final_report"
    /\ result.status = "ok"
    /\ \E a, b \in Rankings :
          /\ root(a) # root(b)
          /\ active_tokens[a].data.reputation_weight
                 # active_tokens[b].data.reputation_weight
    /\ \E i, j, k \in DOMAIN active_tokens :
          i < j /\ j < k /\ root(i) = root(k) /\ root(i) # root(j)

\* The career_clarity that the consultation of token i declared.
declared(i) == active_tokens[root(i)].data.tier_assessment.career_clarity.value

\* C14: enum exactness of career_clarity.  No consultation token is minted
\* for a career_clarity other than high, medium and low; a value in another
\* case or with a blank is rejected.
C14_ExactCareerClarity ==
    \A i \in Consultations : declared(i) \in {"high", "medium", "low"}

\* C15: career clarity selects the scoring weights end to end.  The ranking
\* token of a consultation that declared high records the weights (0.3, 0.7),
\* of one that declared medium (0.5, 0.5), of one that declared low
\* (0.7, 0.3); the weights are kept in tenths.
C15_WeightsOfClarity ==
    \A r \in Rankings :
        LET recorded == <<active_tokens[r].data.reputation_weight,
                          active_tokens[r].data.fit_weight>>
        IN  /\ declared(r) = "high" => recorded = <<3, 7>>
            /\ declared(r) = "medium" => recorded = <<5, 5>>
            /\ declared(r) = "low" => recorded = <<7, 3>>

\* A consultation that declared a low career_clarity was ranked.
C15_Witness ==
    /\ result.op = "score_and_rank_programs"
    /\ result.status = "ok"
    /\ declared(result.minted) = "low"
    /\ active_tokens[result.minted].data.reputation_weight = 7

\* The score the contract gives a row of the programs table, in tenths.
score_of(row, reputation_weight, fit_weight) ==
    _estimate_university_reputation(lower(row.university_name)) * reputation_weight
        + FitScore * fit_weight

\* C16: ranking order.  In every ranking token the score of a program is
\* reputation_score x reputation_weight + fit_score x fit_weight, top_programs
\* is in the order of non-increasing score, the program at position i has
\* rank i, and top_programs holds the first detailed_tier_count +
\* concise_tier_count programs of that order: that many programs (all of them
\* when there are fewer), none of them twice, and no program left out has a
\* higher score than one that is in.
C16_RankingOrder ==
    \A r \in Rankings :
        LET d == active_tokens[r].data
            top == d.top_programs
            rows == _get_program_details_batch(
                        ToSet(active_tokens[lineage[r].from].data.final_program_ids))
            K == d.detailed_tier_count + d.concise_tier_count
            ids == { top[i].program_id : i \in 1..Len(top) }
        IN  /\ \A i \in 1..Len(top) :
                  /\ top[i].score = top[i].reputation_score * d.reputation_weight
                                    + top[i].fit_score * d.fit_weight
                  /\ top[i].rank = i
                  /\ \E row \in rows :
                        /\ row.program_id = top[i].program_id
                        /\ top[i].score
                               = score_of(row, d.reputation_weight, d.fit_weight)
            /\ \A i, j \in 1..Len(top) : i < j => top[i].score >= top[j].score
            /\ Len(top) = IF Cardinality(rows) < K THEN Cardinality(rows) ELSE K
            /\ Cardinality(ids) = Len(top)
            /\ \A row \in rows : row.program_id \notin ids =>
                  \A i \in 1..Len(top) :
                      score_of(row, d.reputation_weight, d.fit_weight)
                          <= top[i].score

\* Seven programs of three different scores were ranked for a report of five.
C16_Witness ==
    /\ result.op = "score_and_rank_programs"
    /\ result.status = "ok"
    /\ Len(active_tokens[result.tokens[1]].data.final_program_ids) = 7
    /\ Len(active_tokens[result.minted].data.top_programs) = 5
    /\ active_tokens[result.minted].data.top_programs[1].score
           > active_tokens[result.minted].data.top_programs[5].score

\* The programs the report step requires after n universities.
required_programs(n) == report_scale(n).detailed_count + report_scale(n).concise_count

OneSearch(name, fields, n) ==
    DictArg("dict",
        [u \in {"MIT"} |->
            Validation(TRUE, ListArg("list", <<1>>),
                DictArg("dict",
                    [k \in {"1"} |->
                        ProgramSearch(TRUE, name,
                            Search("dict", fields, FALSE, "int", n, ""))]),
                ListArg("list", <<1>>))])

\* The entry of program 1 in the payload that a call mints.
stored_search(out) == out.data.web_validations["MIT"].program_searches.map["1"]

\* C18: default back-fill.  On a shortlist token whose target holds the
\* university, a performed program search that omits num_results is accepted
\* and the payload of the validation token carries num_results = 5 for it; a
\* supplied num_results is rejected when it is outside 3..8 and kept when it
\* is inside; an entry without program_name is accepted and carries the name
\* of the program lookup.
C18_DefaultBackFill ==
    NewStore =>
        \A t \in TokensOfType(active_tokens, "shortlist") :
            "MIT" \in ToSet(shortlist_expected_unis(token_data(active_tokens, t))) =>
                \A name \in {"", "MISM", "My program"} :
                    LET omitted ==
                            validate_programs_with_web_outcome(active_tokens,
                                OneSearch(name, {"skipped", "query", "findings"}, 0),
                                t, NoToken)
                        supplied(n) ==
                            validate_programs_with_web_outcome(active_tokens,
                                OneSearch(name, {"skipped", "query", "findings",
                                                 "num_results"}, n),
                                t, NoToken)
                    IN  /\ omitted.status = "ok"
                        /\ "num_results" \in stored_search(omitted).search.fields
                        /\ stored_search(omitted).search.num_results
                               = [type |-> "int", value |-> 5]
                        /\ stored_search(omitted).program_name
                               = IF name = "" THEN "MISM" ELSE name
                        /\ \A n \in 0..(MaxNumResults + 3) :
                              IF n \in 3..8
                              THEN /\ supplied(n).status = "ok"
                                   /\ stored_search(supplied(n)).search
                                          .num_results.value = n
                              ELSE /\ supplied(n).status = "ValueError"
                                   /\ supplied(n).data = NoData

\* A validation was accepted whose performed search omitted program_name and
\* num_results; the token carries the name of the lookup and num_results 5.
C18_Witness ==
    /\ result.op = "validate_programs_with_web"
    /\ result.status = "ok"
    /\ "MIT" \in lineage[result.minted].keys
    /\ stored_search(active_tokens[result.minted]).program_name = "MISM"
    /\ stored_search(active_tokens[result.minted]).search.num_results.value = 5

\* web_validations for MIT with one search of program 1 that is skipped and
\* has no known_info.
SkippedWithoutInfo ==
    DictArg("dict",
        [u \in {"MIT"} |->
            Validation(TRUE, ListArg("list", <<1>>),
                DictArg("dict",
                    [k \in {"1"} |-> ProgramSearch(TRUE, "MISM", SkippedSearch)]),
                ListArg("list", <<1>>))])

\* The detailed research of a TOP_10 report for the programs 101..105 in
\* which search j of the program at position i is `search`.
ResearchWith(i, j, search) ==
    ListArg("list",
        [k \in 1..Top10Detailed |->
            Research(TRUE, 100 + k,
                     [l \in 1..3 |-> IF k = i /\ l = j THEN search
                                     ELSE GoodExaSearch(l)],
                     GoodDimensions)])

\* Search j of a detailed program without findings, with findings of n
\* characters.
ExaWithoutFindings(j) ==
    ExaSearch(TRUE, {"query", "num_results", "source"}, expected_results[j],
              GoodFindings, "exa")
ExaWithFindings(j, n) ==
    ExaSearch(TRUE, {"query", "num_results", "findings", "source"},
              expected_results[j], Text("str", n, n), "exa")

\* C19: findings are required for every performed search.  start_consultation
\* rejects a web search without key_findings, validate_programs_with_web
\* rejects a performed program search without findings and a skipped one
\* without known_info, and generate_final_report rejects an Exa search without
\* findings or with findings of fewer than 50 characters.
C19_FindingsRequired ==
    /\ \A c \in Consultations :
          \A k \in 1..Len(active_tokens[c].data.web_searches_data) :
              "key_findings" \in active_tokens[c].data.web_searches_data[k].fields
    /\ NewStore =>
        /\ \A t \in TokensOfType(active_tokens, "shortlist") :
              "MIT" \in ToSet(shortlist_expected_unis(token_data(active_tokens, t))) =>
                  /\ validate_programs_with_web_outcome(active_tokens,
                         OneSearch("MISM", {"skipped", "query", "num_results"}, 5),
                         t, NoToken).status # "ok"
                  /\ validate_programs_with_web_outcome(active_tokens,
                         SkippedWithoutInfo, t, NoToken).status # "ok"
        /\ \A t \in Rankings, i \in 1..Top10Detailed, j \in 1..3 :
              /\ generate_final_report_outcome(active_tokens,
                     ResearchWith(i, j, ExaWithoutFindings(j)), t,
                     ListArg("none", <<>>)).status # "ok"
              /\ \A n \in {0, MinFindings - 1} :
                    generate_final_report_outcome(active_tokens,
                        ResearchWith(i, j, ExaWithFindings(j, n)), t,
                        ListArg("none", <<>>)).status # "ok"

-----------------------------------------------------------------------------
\* The result counts the searches of a detailed entry declare.
declared_counts(research) ==
    [j \in 1..Len(research.exa_searches) |-> research.exa_searches[j].num_results]

\* C21: generate_final_report accepts a submission only if it holds exactly
\* detailed_tier_count detailed programs, each with exactly 3 searches whose
\* num_results are 4, 8 and 4 in that order, so that the searches validated
\* are the required_exa_searches of the ranking token; a submission of any
\* other count is rejected.
C21_ExactSearchCounts ==
    NewStore =>
        \A t \in Rankings :
            \A d \in RankingResearch, c \in RankingConcise :
                generate_final_report_outcome(active_tokens, d, t, c).status = "ok"
                => /\ Len(d.items) = token_data(active_tokens, t).detailed_tier_count
                   /\ \A i \in 1..Len(d.items) :
                          declared_counts(d.items[i]) = <<4, 8, 4>>
                   /\ 3 * Len(d.items)
                          = token_data(active_tokens, t).required_exa_searches

\* The report of a ranking of each format has been accepted.
C21_Witness ==
    /\ result.op = "generate_final_report"
    /\ result.status = "ok"
    /\ \E t \in Rankings :
          /\ result.tokens[1] = t
          /\ token_data(active_tokens, t).detailed_tier_count = Top20Detailed

-----------------------------------------------------------------------------
\* Dimensions that lack one of the six sections, and dimensions that hold the
\* six with one of them empty or of a single character.
LackingSections == { Dimensions(ToSet(required_dims) \ {dim}, 60) : dim \in ToSet(required_dims) }
ShortSections == { [GoodDimensions EXCEPT ![dim] = Text("str", n, n)] : dim \in ToSet(required_dims), n \in {0, 1} }

\* The outcome of reporting a TOP_10 ranking with the research whose entry i
\* has the dimensions given, rejected?
RejectsSections(t, i, dimensions) ==
    generate_final_report_outcome(active_tokens, ResearchWithSections(i, dimensions),
                                  t, ListArg("none", <<>>)).status = "ValueError"

Top10Rankings == { t \in Rankings : token_data(active_tokens, t).detailed_tier_count = Top10Detailed }

\* C22: generate_final_report rejects a detailed program whose dimensions lack
\* one of the six required sections, or hold one whose content is empty or
\* below the minimum length.
C22_SectionsEnforced ==
    NewStore =>
        \A t \in Top10Rankings, i \in 1..Top10Detailed :
            \A dimensions \in LackingSections \cup ShortSections :
                RejectsSections(t, i, dimensions)

\* What the code does: a lacking section is rejected, a section of any
\* content is accepted.
C22_PresenceOnly ==
    NewStore =>
        \A t \in Top10Rankings, i \in 1..Top10Detailed :
            /\ \A dimensions \in LackingSections : RejectsSections(t, i, dimensions)
            /\ \A dimensions \in ShortSections : ~RejectsSections(t, i, dimensions)

-----------------------------------------------------------------------------
\* A search that declares n results, a list of k searches of 25 results.
SearchOf(num_type, n) == WebSearch(TRUE, {"query", "num_results", "key_findings"}, num_type, n)
SearchList(k) == [kind |-> "list", items |-> [i \in 1..k |-> GoodSearch]]

\* web_searches at and around the bounds: omitted, 0 to 4 searches, and one
\* search declaring 0, 1, 25 or 26 results, a bool, a float or a string.
BoundSearches ==
    { [kind |-> "none", items |-> <<>>] }
    \cup { SearchList(k) : k \in 0..4 }
    \cup { [kind |-> "list", items |-> <<SearchOf("int", n)>>] : n \in {0, 1, 25, 26} }
    \cup { [kind |-> "list", items |-> <<SearchOf("bool", n)>>] : n \in {0, 1} }
    \cup { [kind |-> "list", items |-> <<GoodSearch, SearchOf(type, 5)>>] : type \in {"float", "str"} }

\* At most 3 searches, each declaring an integer num_results in 1..25 (a
\* bool counts as the integer it is in Python).
WithinBounds(items) ==
    /\ Len(items) <= 3
    /\ \A i \in 1..Len(items) :
          /\ items[i].is_dict
          /\ "num_results" \in items[i].fields
          /\ items[i].num_results.type \in {"int", "bool"}
          /\ items[i].num_results.value \in 1..25

\* C23: start_consultation accepts web_searches only when they are at most 3
\* and each declares an integer num_results in 1..25; the consultation token
\* records web_searches_completed as the number of searches (0 when omitted);
\* a submission outside these bounds is rejected and mints no token.
C23_SearchBounds ==
    /\ \A c \in Consultations :
          /\ WithinBounds(active_tokens[c].data.web_searches_data)
          /\ active_tokens[c].data.web_searches_completed
                = Len(active_tokens[c].data.web_searches_data)
    /\ result.op = "start_consultation" /\ result.status # "ok"
          => result.minted = NoToken
    /\ NewStore =>
          \A web_searches \in BoundSearches :
              LET out == start_consultation_outcome(
                             [api_key |-> "sk_super", db_up |-> TRUE, current_usage |-> 0],
                             "background", FullAssessment("medium"), web_searches)
              IN  IF WithinBounds(web_searches.items)
                  THEN /\ out.status = "ok"
                       /\ out.data.web_searches_completed = Len(web_searches.items)
                  ELSE out.status = "ValueError"

\* A consultation has been started with one search.
C23_Witness ==
    /\ result.op = "start_consultation"
    /\ result.status = "ok"
    /\ active_tokens[result.minted].data.web_searches_completed = 1

-----------------------------------------------------------------------------
\* C24: start_consultation checks and increments the monthly counter of the
\* key, so that a key that is no super key starts no more than
\* FREE_CONSULTATION_LIMIT consultations in a month, however the calls
\* interleave; no later step is denied for quota.  (In SpecQuota every
\* consultation is started by "sk_user" in one month.)
C24_QuotaGate ==
    /\ Cardinality(Consultations) <= FREE_CONSULTATION_LIMIT
    /\ result.error = "MONTHLY QUOTA EXCEEDED" => result.op = "start_consultation"

\* What the code does: a call is denied once the table holds the limit, a
\* started consultation leaves the count as it is, and the later step is
\* open at any count.
C24_CheckOnly ==
    /\ [][result'.op = "start_consultation"
             => /\ mcp_usage' = mcp_usage
                /\ result'.status = "ok" <=> mcp_usage < FREE_CONSULTATION_LIMIT]_vars
    /\ [][result'.op = "explore_universities"
             => result'.error # "MONTHLY QUOTA EXCEEDED"]_vars

-----------------------------------------------------------------------------
\* C25: quota enforcement fails closed: while the usage database is
\* unavailable, start_consultation is rejected and mints no consultation
\* token.  (In SpecOutage the database is down at every call.)
C25_FailClosed ==
    /\ Consultations = {}
    /\ result.op = "start_consultation" => result.status # "ok"

\* What the code does: a call with a key that starts with "sk_" goes on to
\* the checks of its payload, whatever row the key has.
C25_FailOpen ==
    NewStore =>
        \A r \in { r \in Requests : ~r.db_up } :
            start_consultation_outcome(r, "background", FullAssessment("low"),
                                       [kind |-> "none", items |-> <<>>]).status = "ok"
            <=> startswith_sk(r.api_key)

-----------------------------------------------------------------------------
\* C26: _internal_track_usage returns the empty string on every path (a
\* missing or malformed key, an unknown or revoked key, a super key, a
\* database failure), never raises, and never changes the token store.
C26_HookNeverAborts ==
    /\ [](\A request \in TrackRequests :
             LET out == _internal_track_usage_outcome(request, mcp_usage)
             IN  out.status = "ok" /\ out.returned = "")
    /\ [][result'.op = "_internal_track_usage"
             => /\ result'.status = "ok" /\ result'.error = ""
                /\ active_tokens' = active_tokens /\ lineage' = lineage]_vars

\* The hook has been called with consultations in the store, and has counted
\* a call.
C26_Witness ==
    /\ result.op = "_internal_track_usage"
    /\ Consultations # {}
    /\ mcp_usage > 0

-----------------------------------------------------------------------------
\* The universities shortlisted in the shortlist token that validation token
\* v was minted from, and those whose programs were retrieved along the chain
\* of programs tokens behind it.
shortlisted_for(v) == DOMAIN active_tokens[lineage[v].from].data.shortlisted_by_university
retrieved_for(v) == chain_processed(lineage[lineage[v].from].from)

\* C27: validate_programs_with_web accepts a university key of
\* web_validations only if it is a key of the shortlisted_by_university of
\* the shortlist token supplied; a university that was never shortlisted, or
\* whose programs were never retrieved, is rejected and never counts towards
\* is_complete.
C27_KeysFromShortlist ==
    \A v \in Validations :
        /\ lineage[v].keys \subseteq shortlisted_for(v)
        /\ lineage[v].keys \subseteq retrieved_for(v)
        /\ active_tokens[v].data.validated_universities \subseteq retrieved_for(v)

\* What the code does: the keys are held against the target list of the
\* first get_university_programs call.
C27_KeysFromTarget ==
    \A v \in Validations : lineage[v].keys \subseteq validation_target(v)

-----------------------------------------------------------------------------
\* C30: in every validation token, is_complete is true iff the set of
\* validated_universities equals the set of expected_universities,
\* remaining_universities is expected minus validated, and
\* validated_universities is a subset of expected_universities, for every
\* shortlist_token and previous_validation_token the caller passes.
C30_ValidationCompleteness ==
    \A v \in Validations :
        LET data == active_tokens[v].data
            expected == ToSet(data.expected_universities)
        IN  /\ data.is_complete <=> (data.validated_universities = expected)
            /\ data.remaining_universities = expected \ data.validated_universities
            /\ data.validated_universities \subseteq expected

\* What the code does: is_complete says that no expected university remains,
\* and remaining_universities is expected minus validated.
C30_NoneRemaining ==
    \A v \in Validations :
        LET data == active_tokens[v].data
            expected == ToSet(data.expected_universities)
        IN  /\ data.is_complete <=> (expected \subseteq data.validated_universities)
            /\ data.remaining_universities = expected \ data.validated_universities

\* The submissions of the owner of a payment that is PAID or PENDING_RETRY:
\* the body carries the user_id of the payment.
PayingSubmissions ==
    { call \in [body : Bodies, payment_id : DOMAIN payments] :
        /\ "user_id" \in DOMAIN call.body
        /\ call.body.user_id = payments[call.payment_id].user_id
        /\ payments[call.payment_id].status
             \in {PaymentStatus.PAID, PaymentStatus.PENDING_RETRY} }

\* C28: submit_background called by an authenticated user with the id of a
\* payment of that user that is PAID or PENDING_RETRY creates exactly one
\* job: it sets the payment's job_id and the status PAID, stores the job with
\* the status pending, pushes the job id once onto job_queue and returns the
\* job id.
C28_PayingUserGetsJob ==
    \A call \in PayingSubmissions :
        LET out == submit_background_outcome(payments, jobs, job_queue,
                                             call.body, call.payment_id)
        IN  /\ out.status = "ok"
            /\ out.job_id \notin DOMAIN jobs
            /\ out.payments[call.payment_id].job_id = out.job_id
            /\ out.payments[call.payment_id].status = PaymentStatus.PAID
            /\ DOMAIN out.jobs = DOMAIN jobs \cup {out.job_id}
            /\ out.jobs[out.job_id].status = "pending"
            /\ out.job_queue = <<out.job_id>> \o job_queue

\* What the handler does instead: every submission, of a paying user or not,
\* is answered 400 and writes nothing.
C28_NoSubmissionAccepted ==
    /\ \A body \in Bodies, payment_id \in PaymentIds :
           LET out == submit_background_outcome(payments, jobs, job_queue,
                                                body, payment_id)
           IN  /\ out.status = "400"
               /\ out.detail = "User authentication required"
               /\ out.payments = payments
               /\ out.jobs = jobs
               /\ out.job_queue = job_queue
    /\ jobs = EmptyDict
    /\ job_queue = <<>>

C29_RetryNeverTaken ==
    [][\A payment_id \in DOMAIN payments :
           payments[payment_id].status = PaymentStatus.PENDING_RETRY
           => /\ payments'[payment_id].status = PaymentStatus.PENDING_RETRY
              /\ ledger'[payment_id].runs = 0]_vars

\* The all_selected_universities given on the first call of the chain of
\* programs token i.
RECURSIVE first_selected(_)
first_selected(i) ==
    IF lineage[i].previous = NoToken
    THEN lineage[i].selected
    ELSE first_selected(lineage[i].previous)

Shortlisted == TokensOfType(active_tokens, "shortlist")
Explorations == TokensOfType(active_tokens, "exploration")

\* all_selected_universities that is None or an empty list.
NoSelection == { ListArg("none", <<>>), ListArg("list", <<>>) }

\* C31: the target list is fixed by the first batch.  In every programs token
\* total_selected_universities is the all_selected_universities of the first
\* call of its chain, and so it is in the shortlist tokens
\* (total_selected_universities) and validation tokens
\* (expected_universities) derived from it; a chained call returns the same
\* whatever all_selected_universities it is given; a first call with no or an
\* empty all_selected_universities is rejected.
C31_TargetFixedByFirstBatch ==
    /\ \A i \in Programs :
           /\ first_selected(i) # <<>>
           /\ active_tokens[i].data.total_selected_universities = first_selected(i)
    /\ \A s \in Shortlisted :
           active_tokens[s].data.total_selected_universities
               = first_selected(lineage[s].from)
    /\ \A v \in Validations :
           active_tokens[v].data.expected_universities
               = first_selected(lineage[lineage[v].from].from)
    /\ NewStore =>
         \A e \in Explorations, universities \in BatchLists :
            /\ \A previous \in Programs, a, b \in BatchSelections \cup NoSelection :
                   get_university_programs_outcome(active_tokens, universities,
                                                   e, a, previous)
                   = get_university_programs_outcome(active_tokens, universities,
                                                     e, b, previous)
            /\ \A a \in NoSelection :
                   get_university_programs_outcome(active_tokens, universities,
                                                   e, a, NoToken).status
                   = "ValueError"

\* A second batch was accepted with an all_selected_universities other than
\* that of the first call, and a validation descends from the chain.
C31_Witness ==
    /\ \E i \in Programs :
           /\ lineage[i].previous # NoToken
           /\ lineage[i].selected # <<>>
           /\ lineage[i].selected # first_selected(i)
    /\ Validations # {}
    /\ \E i \in Programs : lineage[i].previous = NoToken /\ Len(lineage[i].selected) = 2

\* The number of calls along the chain of programs or validation token i.
RECURSIVE chain_length(_)
chain_length(i) ==
    IF lineage[i].previous = NoToken THEN 1
    ELSE 1 + chain_length(lineage[i].previous)

\* A chained programs token: its call added a target university that was
\* not processed, to a chain that was not complete, and the chain is no
\* longer than the target list.
ProgramsProgress(i) ==
    LET data == active_tokens[i].data
        previous == lineage[i].previous
        target == ToSet(data.total_selected_universities)
        processed == ToSet(data.cumulative_universities_processed)
    IN  /\ chain_length(i) <= Cardinality(target)
        /\ processed \subseteq target
        /\ previous # NoToken =>
             LET before == active_tokens[previous].data
             IN  /\ ~before.is_complete
                 /\ ToSet(before.cumulative_universities_processed) \subseteq processed
                 /\ ToSet(before.cumulative_universities_processed) # processed

\* The same of a validation token.
ValidationProgress(v) ==
    LET data == active_tokens[v].data
        previous == lineage[v].previous
        target == ToSet(data.expected_universities)
    IN  /\ chain_length(v) <= Cardinality(target)
        /\ data.validated_universities \subseteq target
        /\ previous # NoToken =>
             LET before == active_tokens[previous].data
             IN  /\ ~before.is_complete
                 /\ before.validated_universities \subseteq data.validated_universities
                 /\ before.validated_universities # data.validated_universities

\* C32: the iterative steps terminate.  Along every chain of accepted
\* get_university_programs calls and of accepted validate_programs_with_web
\* calls, each call adds a target university that was not processed, so
\* the chain is no longer than the target list, and no call chained to a
\* token with is_complete = true is accepted.
C32_IterationTerminates ==
    /\ \A i \in Programs : ProgramsProgress(i)
    /\ \A v \in Validations : ValidationProgress(v)

\* The part that holds: the chains of get_university_programs, and every
\* accepted validate_programs_with_web adds a university to its chain.
C32_ProgramsTerminate ==
    /\ \A i \in Programs : ProgramsProgress(i)
    /\ \A v \in Validations :
           lineage[v].previous # NoToken =>
               active_tokens[lineage[v].previous].data.validated_universities
                   # active_tokens[v].data.validated_universities

\* web_validations restricted to the universities K.
Chunk(web_validations, K) ==
    DictArg("dict", [u \in K |-> web_validations.map[u]])

\* The outcome of submitting web_validations in two calls, first the
\* universities K and then the others chained to the token of the first
\* call; the outcome of the first call when it is rejected.
InTwoCalls(web_validations, K, shortlist_token) ==
    LET first == validate_programs_with_web_outcome(active_tokens,
                     Chunk(web_validations, K), shortlist_token, NoToken)
        store == generate_token(active_tokens, "validation", first.data)
    IN  IF first.status # "ok" THEN first
        ELSE validate_programs_with_web_outcome(store,
                 Chunk(web_validations, DOMAIN web_validations.map \ K),
                 shortlist_token, Len(active_tokens) + 1)

\* Submitting `web_validations` in one call and in two calls ends the same,
\* for every split in two: both are accepted with the same validated set,
\* the same final program ids and the same is_complete.
SameInChunks(web_validations, shortlist_token) ==
    LET whole == validate_programs_with_web_outcome(active_tokens,
                     web_validations, shortlist_token, NoToken)
        unis == DOMAIN web_validations.map
    IN  whole.status = "ok" =>
          \A K \in SUBSET unis \ {{}, unis} :
             LET parts == InTwoCalls(web_validations, K, shortlist_token)
             IN  /\ parts.status = "ok"
                 /\ parts.data.validated_universities
                        = whole.data.validated_universities
                 /\ ToSet(parts.data.final_program_ids)
                        = ToSet(whole.data.final_program_ids)
                 /\ Len(parts.data.final_program_ids)
                        = Len(whole.data.final_program_ids)
                 /\ parts.is_complete = whole.is_complete

\* The web_validations that are dicts.
DictValidations == { d \in WorkflowValidations : d.kind = "dict" }

\* C33: validation does not depend on chunking.  A web_validations dict that
\* validate_programs_with_web accepts in one call is accepted at every call
\* when its entries are submitted in several chained calls, and ends with
\* the same validated set, final_program_ids and is_complete.
C33_ChunkingIndependent ==
    result.op = "shortlist_programs_by_name" /\ result.minted # NoToken =>
        \A d \in DictValidations : SameInChunks(d, result.minted)

\* The same of the dicts in which every university keeps a program.
C33_ChunksThatKeepPrograms ==
    result.op = "shortlist_programs_by_name" /\ result.minted # NoToken =>
        \A d \in DictValidations :
            (\A u \in DOMAIN d.map :
                 /\ d.map[u].is_dict
                 /\ d.map[u].final_program_ids.kind = "list"
                 /\ d.map[u].final_program_ids.items # <<>>)
            => SameInChunks(d, result.minted)

\* MIT's entry with a final id that no round of the submission names: the
\* third round holds 1 and 2, both with a search entry, the final list holds
\* 1 and 7.
StrayFinal ==
    DictArg("dict",
        [u \in {"MIT"} |->
            [GoodValidation(<<1, 2>>) EXCEPT
                !.final_program_ids = ListArg("list", <<1, 7>>)]])

\* The final ids of university u in the accepted submission d are programs
\* of its third round with a search entry, and programs of the shortlist.
Researched(d, u, accepted, shortlist_data) ==
    \A id \in ToSet(d.map[u].final_program_ids.items) :
        /\ id \in ToSet(d.map[u].third_round_program_ids.items)
        /\ str(id) \in DOMAIN accepted.web_validations[u].program_searches.map
        /\ u \in DOMAIN shortlist_data.shortlisted_by_university
        /\ id \in ToSet(shortlist_data.shortlisted_by_university[u])

\* C34: no program reaches the final set without research.  Every id of the
\* final_program_ids of a submission that validate_programs_with_web accepts
\* is in the third_round_program_ids of its university, has a search entry
\* in program_searches and was shortlisted by shortlist_programs_by_name; a
\* submission with any other final id is rejected.
C34_FinalIdsResearched ==
    result.op = "shortlist_programs_by_name" /\ result.minted # NoToken =>
        \A d \in DictValidations \cup {StrayFinal} :
            LET out == validate_programs_with_web_outcome(active_tokens, d,
                           result.minted, NoToken)
            IN  out.status = "ok" =>
                    \A u \in DOMAIN d.map :
                        Researched(d, u, out.data,
                                   active_tokens[result.minted].data)

\* What the validator does hold: in an accepted submission every program of
\* the third round has a search entry.
C34_ThirdRoundResearched ==
    result.op = "shortlist_programs_by_name" /\ result.minted # NoToken =>
        \A d \in DictValidations \cup {StrayFinal} :
            LET out == validate_programs_with_web_outcome(active_tokens, d,
                           result.minted, NoToken)
            IN  out.status = "ok" =>
                    \A u \in DOMAIN d.map :
                        \A id \in ToSet(d.map[u].third_round_program_ids.items) :
                            str(id) \in
                                DOMAIN out.data.web_validations[u].program_searches.map

\* The program ids of the entries of a research list, in order.
program_ids(research) == [i \in 1..Len(research.items) |-> research.items[i].program_id]

\* The submission reports ranked programs only, each once, and its detailed
\* tier is the first detailed_tier_count programs of the ranking.
CoversRanking(ranking_data, detailed, concise) ==
    LET top == ranking_data.top_programs
        ranked == { top[i].program_id : i \in DOMAIN top }
        first ==
            { top[i].program_id :
                i \in DOMAIN top \cap 1..ranking_data.detailed_tier_count }
        reported == program_ids(detailed) \o program_ids(concise)
    IN  /\ ToSet(reported) \subseteq ranked
        /\ Cardinality(ToSet(reported)) = Len(reported)
        /\ ToSet(program_ids(detailed)) = first

\* C35: the report covers the ranked programs.  generate_final_report
\* accepts a submission only if every program_id of the detailed and of the
\* concise research is one of the ranking token's top_programs, no
\* program_id occurs twice, and the detailed tier is the top
\* detailed_tier_count programs by rank.
C35_ReportCoversRanking ==
    \A r \in Rankings, detailed \in RankingReports, concise \in RankingConcise :
        generate_final_report_outcome(active_tokens, detailed, r, concise).status
            = "ok"
        => CoversRanking(active_tokens[r].data, detailed, concise)

\* What the handler holds the submission against: the counts of the ranking
\* token, not its programs.
C35_CountsOnly ==
    \A r \in Rankings, detailed \in RankingReports, concise \in RankingConcise :
        generate_final_report_outcome(active_tokens, detailed, r, concise).status
            = "ok"
        => /\ Len(detailed.items) = active_tokens[r].data.detailed_tier_count
           /\ active_tokens[r].data.concise_tier_count > 0
              => Len(concise.items) = active_tokens[r].data.concise_tier_count

\* The token of the first call of the chain of programs or validation
\* token i.
RECURSIVE chain_head(_)
chain_head(i) ==
    IF lineage[i].previous = NoToken THEN i
    ELSE chain_head(lineage[i].previous)

\* The first get_university_programs call that validation token v descends
\* from through its shortlist_token.
target_head(v) == chain_head(lineage[lineage[v].from].from)

\* C36: tokens of different consultations cannot be combined.  No programs
\* token is minted from an exploration_token and a previous_programs_token
\* of different consultations, and no validation token from a
\* shortlist_token and a previous_validation_token of different
\* consultations or of different first-batch target lists.
C36_NoMixedTokens ==
    /\ \A i \in Programs :
           lineage[i].previous # NoToken =>
               root(lineage[i].from) = root(lineage[i].previous)
    /\ \A v \in Validations :
           lineage[v].previous # NoToken =>
               /\ root(lineage[v].from) = root(lineage[v].previous)
               /\ target_head(v) = target_head(lineage[v].previous)

\* What holds of the tokens of a call: each is of the type its parameter
\* expects, whatever chain it comes from.
C36_TypesOnly ==
    /\ \A i \in Programs :
           /\ active_tokens[lineage[i].from].type = "exploration"
           /\ lineage[i].previous # NoToken =>
                  active_tokens[lineage[i].previous].type = "programs"
    /\ \A v \in Validations :
           /\ active_tokens[lineage[v].from].type = "shortlist"
           /\ lineage[v].previous # NoToken =>
                  active_tokens[lineage[v].previous].type = "validation"

\* The report of an honest caller for ranking token r: the detailed research
\* of the first detailed_tier_count programs of top_programs and the summaries
\* of the concise_tier_count programs after them, as far as top_programs
\* goes, each program once and every entry well-formed.
HonestDetailed(r) ==
    LET data == active_tokens[r].data
        n == IF Len(data.top_programs) < data.detailed_tier_count
             THEN Len(data.top_programs) ELSE data.detailed_tier_count
    IN  ListArg("list", [i \in 1..n |-> GoodResearch(data.top_programs[i].program_id)])

HonestConcise(r) ==
    LET data == active_tokens[r].data
        d == data.detailed_tier_count
        rest == IF Len(data.top_programs) > d THEN Len(data.top_programs) - d ELSE 0
        n == IF rest < data.concise_tier_count THEN rest ELSE data.concise_tier_count
    IN  IF n = 0 THEN ListArg("none", <<>>)
        ELSE ListArg("list",
                 [i \in 1..n |-> GoodConcise(data.top_programs[d + i].program_id)])

HonestReportAccepted(r) ==
    generate_final_report_outcome(active_tokens, HonestDetailed(r), r,
                                  HonestConcise(r)).status = "ok"

\* The programs the report of ranking token r has to cover.
Required(r) ==
    active_tokens[r].data.detailed_tier_count
    + active_tokens[r].data.concise_tier_count

\* C37: the report step is always satisfiable honestly.  Every ranking token
\* holds at least detailed_tier_count + concise_tier_count programs in
\* top_programs, and the report of these programs, each once, is accepted
\* by generate_final_report.
C37_HonestReportPossible ==
    \A r \in Rankings :
        /\ Len(active_tokens[r].data.top_programs) >= Required(r)
        /\ HonestReportAccepted(r)

\* What holds: the honest report is accepted exactly when the ranking holds
\* as many programs as the report format requires.
C37_HonestReportWhenEnough ==
    \A r \in Rankings :
        HonestReportAccepted(r)
            <=> Len(active_tokens[r].data.top_programs) >= Required(r)

\* The store in which validation token v records the career clarity c.
WithClarity(v, c) == [active_tokens EXCEPT ![v].data.career_clarity = c]

\* A ranking payload without what the career clarity is allowed to change:
\* the scores, the recorded weights and the career clarity itself.
WithoutScores(data) ==
    [data EXCEPT !.top_programs = [i \in DOMAIN @ |-> [@[i] EXCEPT !.score = 0]],
                 !.reputation_weight = 0,
                 !.fit_weight = 0,
                 !.career_clarity = ""]

\* C38: the ranking order does not depend on career clarity.  For the same
\* validated programs score_and_rank_programs returns the same programs in
\* the same order with the same ranks for the career clarity high, medium
\* and low; the scores and the recorded weights alone differ.
C38_OrderIndependentOfClarity ==
    /\ \A v \in Validations, c \in {"high", "low"} :
           LET as_medium == score_and_rank_programs_outcome(
                                WithClarity(v, "medium"), v)
               as_c == score_and_rank_programs_outcome(WithClarity(v, c), v)
           IN  /\ as_c.status = "ok"
               /\ as_medium.status = "ok"
               /\ WithoutScores(as_c.data) = WithoutScores(as_medium.data)
               /\ as_c.data.reputation_weight # as_medium.data.reputation_weight
    /\ \A r \in Rankings :
           WithoutScores(active_tokens[r].data)
           = WithoutScores(score_and_rank_programs_outcome(
                               WithClarity(lineage[r].from, "medium"),
                               lineage[r].from).data)

\* A ranking of a high career clarity that holds programs of three different
\* reputations, a later one of them with a smaller id than an earlier one.
C38_Witness ==
    /\ result.op = "score_and_rank_programs"
    /\ result.status = "ok"
    /\ active_tokens[result.minted].data.career_clarity = "high"
    /\ LET top == active_tokens[result.minted].data.top_programs
       IN  /\ Cardinality({ top[i].reputation_score : i \in DOMAIN top }) >= 3
           /\ \E i, j \in DOMAIN top :
                  i < j /\ top[i].program_id > top[j].program_id

\* C39: no university is counted twice.  In every programs token
\* cumulative_universities_processed lists each university at most once, and
\* the processed count that get_university_programs reports, its length, is
\* at most the number of distinct universities of the target list.
C39_NoUniversityTwice ==
    \A i \in Programs :
        LET data == active_tokens[i].data
            processed == data.cumulative_universities_processed
        IN  /\ Cardinality(ToSet(processed)) = Len(processed)
            /\ Len(processed)
                   <= Cardinality(ToSet(data.total_selected_universities))

\* What holds: the universities processed are target universities, and
\* is_complete tells that all of them have been processed.
C39_ProcessedAreTargets ==
    \A i \in Programs :
        LET data == active_tokens[i].data
            processed == ToSet(data.cumulative_universities_processed)
            target == ToSet(data.total_selected_universities)
        IN  /\ processed \subseteq target
            /\ data.is_complete <=> processed = target

\* The jobs of job_queue that were submitted for payment_id.
queued_for(payment_id) ==
    { i \in 1..Len(job_queue) : jobs[job_queue[i]].payment_id = payment_id }

\* C40: a payment funds one job at a time.  While a payment is PAID and has
\* a job_id attached, every submit_background with its id is rejected, and
\* no payment has two jobs in job_queue.  (No reachable state attaches a
\* job_id, see C28: the statement holds without its case ever arising.)
C40_OneJobAtATime ==
    /\ \A payment_id \in DOMAIN payments, body \in Bodies :
           /\ payments[payment_id].status = PaymentStatus.PAID
           /\ payments[payment_id].job_id # None
           => submit_background_outcome(payments, jobs, job_queue, body,
                                        payment_id).status # "ok"
    /\ \A payment_id \in DOMAIN payments :
           Cardinality(queued_for(payment_id)) <= 1

\* The case of C40: a PAID payment with a job_id attached.
C40_JobAttached ==
    \E payment_id \in DOMAIN payments :
        /\ payments[payment_id].status = PaymentStatus.PAID
        /\ payments[payment_id].job_id # None


=============================================================================
